---- MODULE Spec2Model ----
(***************************************************************************)
(* Model of the PKU-BlackBoard-Watcher ingestion/diff core: the Item       *)
(* fingerprints (app/models.py), the SQLite dedup store (app/store.py),    *)
(* the message decision functions (app/notify.py) and the --run pass of    *)
(* app/main.py.                                                            *)
(*                                                                         *)
(* Text is a sequence of one-character strings, so that str.strip() and    *)
(* " ".join(x.split()) are computed and not assumed.  A SHA-1 digest is    *)
(* modelled as the tuple it hashes (SHA-1 taken as injective); the empty   *)
(* string / NULL of a fingerprint column is the empty tuple NoFp.          *)
(***************************************************************************)
EXTENDS Integers, Sequences, FiniteSets, TLC

VARIABLES db, now, last, catalog

vars == <<db, now, last, catalog>>

----------------------------------------------------------------------------
(* Bounds *)

\* longest item list a fetch returns / a store operation is given
MaxItems == 2
\* largest clock reading (the clock starts at 0)
MaxTime == 1
\* largest --limit and POLL_LIMIT_PER_RUN that are tried (0 = not set)
MaxLimit == 1

----------------------------------------------------------------------------
(* Text *)

SP == " "

IsSpace(c) == c = SP

RECURSIVE LStrip(_)
LStrip(s) == IF s # <<>> /\ IsSpace(Head(s)) THEN LStrip(Tail(s)) ELSE s

RECURSIVE RStrip(_)
RStrip(s) ==
    IF s # <<>> /\ IsSpace(s[Len(s)]) THEN RStrip(SubSeq(s, 1, Len(s) - 1)) ELSE s

\* str.strip()
Strip(s) == RStrip(LStrip(s))

\* " ".join(str(v or "").split()).strip(): runs of whitespace become one
\* space, leading and trailing whitespace goes.
RECURSIVE Collapse(_)
Collapse(s) ==
    IF s = <<>> THEN <<>>
    ELSE IF IsSpace(Head(s))
         THEN LET r == LStrip(s) IN
              IF r = <<>> THEN <<>> ELSE <<SP>> \o Collapse(r)
         ELSE <<Head(s)>> \o Collapse(Tail(s))

NormWs(v) == Strip(Collapse(v))

\* dict.get(key, default)
Get(d, k, default) == IF k \in DOMAIN d THEN d[k] ELSE default

\* Python's `a or b` on text
Or(a, b) == IF a # <<>> THEN a ELSE b

\* the value of F at v, with v computed once (a local variable assignment)
Bind(v, F(_)) == CHOOSE r \in {F(x) : x \in {v}} : TRUE

----------------------------------------------------------------------------
(* Item fingerprints (app/models.py) *)

NoFp == <<>>

\* identity_fp with the url taken before the external id
identity_fp_url_first(it) ==
    LET external_id == Strip(it.external_id)
        url == Strip(it.url)
        title == Strip(it.title)
    IN  IF url # <<>>
        THEN <<"sha1", it.source, Strip(it.course_id), "url", url>>
        ELSE IF external_id # <<>>
             THEN <<"sha1", it.source, Strip(it.course_id), "external_id", external_id>>
             ELSE <<"sha1", it.source, Strip(it.course_id), "title", title>>

identity_fp(it) ==
    LET external_id == Strip(it.external_id)
        url == Strip(it.url)
        title == Strip(it.title)
    IN  IF external_id # <<>>
        THEN <<"sha1", it.source, Strip(it.course_id), "external_id", external_id>>
        ELSE IF url # <<>>
             THEN <<"sha1", it.source, Strip(it.course_id), "url", url>>
             ELSE <<"sha1", it.source, Strip(it.course_id), "title", title>>

\* state_fp hashing the course name as well
state_fp_with_course_name(it) ==
    LET raw == it.raw
        base == <<identity_fp(it), Strip(it.title), Strip(it.url),
                  Strip(it.due), Strip(it.ts), Strip(it.course_name)>>
        proj ==
          CASE it.source = "announcement" ->
                 <<Get(raw, "published_at", <<>>), Get(raw, "published_at_raw", <<>>),
                   Get(raw, "author", <<>>), Get(raw, "content", <<>>)>>
            [] it.source = "teaching_content" ->
                 <<Get(raw, "has_attachments", "False") = "True",
                   Get(raw, "content", <<>>)>>
            [] it.source = "assignment" ->
                 <<Get(raw, "is_online_submission", "False") = "True",
                   Get(raw, "submitted", "None"),
                   Get(raw, "submitted_at_raw", <<>>),
                   Get(raw, "grade_raw", <<>>),
                   Get(raw, "points_possible_raw", <<>>)>>
            [] it.source = "grade_item" ->
                 <<Get(raw, "category", <<>>), Get(raw, "status", <<>>),
                   Get(raw, "grade_raw", <<>>),
                   Get(raw, "points_possible_raw", <<>>)>>
            [] OTHER -> <<>>
    IN  <<"sha1", base, proj>>

state_fp(it) ==
    LET raw == it.raw
        base == <<identity_fp(it), Strip(it.title), Strip(it.url),
                  Strip(it.due), Strip(it.ts)>>
        proj ==
          CASE it.source = "announcement" ->
                 <<Get(raw, "published_at", <<>>), Get(raw, "published_at_raw", <<>>),
                   Get(raw, "author", <<>>), Get(raw, "content", <<>>)>>
            [] it.source = "teaching_content" ->
                 <<Get(raw, "has_attachments", "False") = "True",
                   Get(raw, "content", <<>>)>>
            [] it.source = "assignment" ->
                 <<Get(raw, "is_online_submission", "False") = "True",
                   Get(raw, "submitted", "None"),
                   Get(raw, "submitted_at_raw", <<>>),
                   Get(raw, "grade_raw", <<>>),
                   Get(raw, "points_possible_raw", <<>>)>>
            [] it.source = "grade_item" ->
                 <<Get(raw, "category", <<>>), Get(raw, "status", <<>>),
                   Get(raw, "grade_raw", <<>>),
                   Get(raw, "points_possible_raw", <<>>)>>
            [] OTHER -> <<>>
    IN  <<"sha1", base, proj>>

\* _as_item: lift a parsed record into an Item (the record stays as raw)
_as_item(d) ==
    LET source == d.source
        external_id ==
          CASE source = "announcement" -> Get(d, "announcement_id", <<>>)
            [] source = "teaching_content" -> Get(d, "content_item_id", <<>>)
            [] source = "assignment" -> Get(d, "content_item_id", <<>>)
            [] source = "grade_item" -> Get(d, "row_id", <<>>)
            [] OTHER -> <<>>
        ts ==
          CASE source = "announcement" -> Get(d, "published_at", <<>>)
            [] source = "assignment" -> Get(d, "published_at", <<>>)
            [] source = "grade_item" -> Get(d, "lastactivity", <<>>)
            [] OTHER -> <<>>
        due ==
          CASE source = "assignment" ->
                 Or(Get(d, "due_at", <<>>), Get(d, "due_at_raw", <<>>))
            [] source = "grade_item" ->
                 Or(Get(d, "duedate", <<>>), Get(d, "duedate_display", <<>>))
            [] OTHER -> <<>>
    IN  [source |-> source,
         course_id |-> Strip(Get(d, "course_id", <<>>)),
         course_name |-> Strip(Get(d, "course_name", <<>>)),
         title |-> Strip(Get(d, "title", <<>>)),
         url |-> Strip(Get(d, "url", <<>>)),
         due |-> due,
         ts |-> ts,
         external_id |-> external_id,
         raw |-> d]

----------------------------------------------------------------------------
(* The parsed records the portal can yield in the model: one logical item  *)
(* per board of one course, each in a few states.                          *)

AnnRec(content) ==
    [source |-> "announcement", course_id |-> <<"c">>, announcement_id |-> <<"h">>,
     title |-> <<"N">>, content |-> content]

TcRec(has_attachments, content) ==
    [source |-> "teaching_content", course_id |-> <<"c">>,
     content_item_id |-> <<"t">>, title |-> <<"L">>,
     has_attachments |-> has_attachments, content |-> content]

AsgRec(submitted) ==
    [source |-> "assignment", course_id |-> <<"c">>, content_item_id |-> <<"h">>,
     title |-> <<"H">>, is_online_submission |-> "True", submitted |-> submitted]

GradeRec(title, grade_raw) ==
    [source |-> "grade_item", course_id |-> <<"c">>, row_id |-> <<"g">>,
     title |-> title, grade_raw |-> grade_raw]

Items ==
    { _as_item(d) : d \in
        { AnnRec(<<"x">>), AnnRec(<<"y">>),
          TcRec("False", <<>>), TcRec("True", <<>>), TcRec("True", <<"w">>),
          AsgRec("False"), AsgRec("True"),
          GradeRec(<<"Q">>, <<"9">>), GradeRec(<<"Q">>, <<"8">>),
          GradeRec(<<"R">>, <<"9">>) } }

\* SHA-1 hex digests are compared as strings by the sort of the run; the
\* digests of the four modelled identities are, in ascending order, those of
\* the announcement (103f41..), the assignment (2cfd4a..), the grade item
\* (455f32..) and the teaching content (4eb6dc..).
FpRank(fp) ==
    CASE fp[2] = "announcement" -> 1
      [] fp[2] = "assignment" -> 2
      [] fp[2] = "grade_item" -> 3
      [] fp[2] = "teaching_content" -> 4
      [] OTHER -> 5

----------------------------------------------------------------------------
(* The store (app/store.py).  db maps the fp of each row of table items to *)
(* the row; a NULL or empty fingerprint column is NoFp, a NULL or empty    *)
(* timestamp column is NoTime.  _now_iso() reads the clock `now`.          *)

NoTime == -1

\* json.dumps(raw, sort_keys=True) and json.loads of it
json_dumps(raw) == <<"json", raw>>
json_loads(raw_json) == IF raw_json = <<>> THEN <<>> ELSE raw_json[2]

\* a mutation: the migration without its backfill UPDATE
_migrate_items_table_columns_only(d) == d

\* the backfill UPDATE of _migrate_items_table (the table of the model always
\* has the current columns, so the ALTER TABLE branches add nothing)
_migrate_items_table(d) ==
    [fp \in DOMAIN d |->
       IF d[fp].sent_state_fp = NoFp /\ d[fp].sent_at # NoTime /\ d[fp].state_fp # NoFp
       THEN [d[fp] EXCEPT !.sent_state_fp = d[fp].state_fp]
       ELSE d[fp]]

\* a mutation: init_db creates the table anew
init_db_recreate(d) == <<>>

init_db(d) == _migrate_items_table(d)

\* upsert_seen as it would be with sent_state_fp among the columns that
\* ON CONFLICT updates
UpsertRowWritesSent(d, it, t) ==
    LET fp == identity_fp(it) IN
    IF fp \in DOMAIN d
    THEN [d EXCEPT ![fp] =
            [@ EXCEPT !.course_id = it.course_id, !.course_name = it.course_name,
                      !.source = it.source, !.external_id = it.external_id,
                      !.state_fp = state_fp(it), !.sent_state_fp = state_fp(it),
                      !.title = it.title,
                      !.url = it.url, !.due = it.due, !.ts = it.ts,
                      !.raw_json = json_dumps(it.raw), !.updated_at = t]]
    ELSE [x \in DOMAIN d \cup {fp} |->
            IF x = fp
            THEN [course_id |-> it.course_id, course_name |-> it.course_name,
                  source |-> it.source, external_id |-> it.external_id,
                  state_fp |-> state_fp(it), sent_state_fp |-> NoFp,
                  title |-> it.title, url |-> it.url, due |-> it.due, ts |-> it.ts,
                  raw_json |-> json_dumps(it.raw),
                  created_at |-> t, updated_at |-> t, sent_at |-> NoTime]
            ELSE d[x]]

\* upsert_seen as it would be with INSERT OR REPLACE: the row is written anew
UpsertRowReplace(d, it, t) ==
    LET fp == identity_fp(it) IN
    [x \in DOMAIN d \cup {fp} |->
       IF x = fp
       THEN [course_id |-> it.course_id, course_name |-> it.course_name,
             source |-> it.source, external_id |-> it.external_id,
             state_fp |-> state_fp(it), sent_state_fp |-> NoFp,
             title |-> it.title, url |-> it.url, due |-> it.due, ts |-> it.ts,
             raw_json |-> json_dumps(it.raw),
             created_at |-> t, updated_at |-> t, sent_at |-> NoTime]
       ELSE d[x]]

\* one row of the INSERT ... ON CONFLICT(fp) DO UPDATE of upsert_seen
UpsertRow(d, it, t) ==
    LET fp == identity_fp(it) IN
    IF fp \in DOMAIN d
    THEN [d EXCEPT ![fp] =
            [@ EXCEPT !.course_id = it.course_id, !.course_name = it.course_name,
                      !.source = it.source, !.external_id = it.external_id,
                      !.state_fp = state_fp(it), !.title = it.title,
                      !.url = it.url, !.due = it.due, !.ts = it.ts,
                      !.raw_json = json_dumps(it.raw), !.updated_at = t]]
    ELSE [x \in DOMAIN d \cup {fp} |->
            IF x = fp
            THEN [course_id |-> it.course_id, course_name |-> it.course_name,
                  source |-> it.source, external_id |-> it.external_id,
                  state_fp |-> state_fp(it), sent_state_fp |-> NoFp,
                  title |-> it.title, url |-> it.url, due |-> it.due, ts |-> it.ts,
                  raw_json |-> json_dumps(it.raw),
                  created_at |-> t, updated_at |-> t, sent_at |-> NoTime]
            ELSE d[x]]

RECURSIVE UpsertRows(_, _, _)
UpsertRows(d, items, t) ==
    IF items = <<>> THEN d
    ELSE Bind(UpsertRow(d, Head(items), t), LAMBDA d1 : UpsertRows(d1, Tail(items), t))

\* a mutation: the run writes the fetched items after its acknowledgements
\* and marks, not before them
upsert_seen_later(d, items, t) == d

upsert_seen(d, items, t) ==
    IF items = <<>> THEN d
    ELSE Bind(_migrate_items_table(d), LAMBDA m : UpsertRows(m, items, t))

\* the items of a list, last occurrence per identity (by_fp of bulk_classify)
ByFp(items) ==
    [fp \in {identity_fp(items[i]) : i \in DOMAIN items} |->
       LET i == CHOOSE j \in DOMAIN items :
                  /\ identity_fp(items[j]) = fp
                  /\ \A k \in DOMAIN items : identity_fp(items[k]) = fp => k <= j
       IN  items[i]]

\* bulk_classify as it would be if it read sent_state_fp
bulk_classify_by_sent(d, items) ==
    LET by_fp == ByFp(items)
        existing_state == [fp \in DOMAIN by_fp \cap DOMAIN d |-> d[fp].sent_state_fp]
    IN  [new |-> {by_fp[fp] : fp \in {f \in DOMAIN by_fp : f \notin DOMAIN existing_state}},
         updated |-> {by_fp[fp] : fp \in {f \in DOMAIN by_fp :
                         f \in DOMAIN existing_state
                         /\ existing_state[f] # state_fp(by_fp[f])}},
         unchanged |-> {by_fp[fp] : fp \in {f \in DOMAIN by_fp :
                         f \in DOMAIN existing_state
                         /\ existing_state[f] = state_fp(by_fp[f])}}]

\* bulk_classify: the three lists as sets of items
bulk_classify(d, items) ==
    LET by_fp == ByFp(items)
        existing_state == [fp \in DOMAIN by_fp \cap DOMAIN d |-> d[fp].state_fp]
    IN  [new |-> {by_fp[fp] : fp \in {f \in DOMAIN by_fp : f \notin DOMAIN existing_state}},
         updated |-> {by_fp[fp] : fp \in {f \in DOMAIN by_fp :
                         f \in DOMAIN existing_state
                         /\ existing_state[f] # state_fp(by_fp[f])}},
         unchanged |-> {by_fp[fp] : fp \in {f \in DOMAIN by_fp :
                         f \in DOMAIN existing_state
                         /\ existing_state[f] = state_fp(by_fp[f])}}]

\* bulk_filter_new: the positions of the list whose fp has no row
bulk_filter_new(d, items) ==
    {i \in DOMAIN items : identity_fp(items[i]) \notin DOMAIN d}

mark_sent(d, fps, t) ==
    IF fps = <<>> THEN d
    ELSE Bind(_migrate_items_table(d), LAMBDA m :
           [fp \in DOMAIN m |->
              IF (\E i \in DOMAIN fps : fps[i] = fp) /\ m[fp].sent_at = NoTime
              THEN [m[fp] EXCEPT !.sent_at = t]
              ELSE m[fp]])

fetch_records(d, fps) ==
    Bind(_migrate_items_table(d), LAMBDA m :
      [fp \in {f \in DOMAIN m : \E i \in DOMAIN fps : fps[i] = f} |->
         [state_fp |-> m[fp].state_fp, sent_state_fp |-> m[fp].sent_state_fp,
          raw |-> json_loads(m[fp].raw_json), sent_at |-> m[fp].sent_at]])

RECURSIVE MarkRows(_, _, _)
MarkRows(d, pairs, t) ==
    IF pairs = <<>> THEN d
    ELSE LET fp == Head(pairs)[1]
             st == Head(pairs)[2]
             d1 == IF fp \in DOMAIN d
                   THEN [d EXCEPT ![fp] = [@ EXCEPT !.sent_at = t, !.sent_state_fp = st]]
                   ELSE d
         IN  Bind(d1, LAMBDA d2 : MarkRows(d2, Tail(pairs), t))

mark_notified(d, pairs, t) ==
    IF pairs = <<>> THEN d
    ELSE Bind(_migrate_items_table(d), LAMBDA m : MarkRows(m, pairs, t))

\* ack_state as it would be if its UPDATE also set state_fp
RECURSIVE AckRowsTouchState(_, _)
AckRowsTouchState(d, pairs) ==
    IF pairs = <<>> THEN d
    ELSE LET fp == Head(pairs)[1]
             st == Head(pairs)[2]
             d1 == IF fp \in DOMAIN d
                   THEN [d EXCEPT ![fp] = [@ EXCEPT !.sent_state_fp = st, !.state_fp = st]]
                   ELSE d
         IN  Bind(d1, LAMBDA d2 : AckRowsTouchState(d2, Tail(pairs)))

RECURSIVE AckRows(_, _)
AckRows(d, pairs) ==
    IF pairs = <<>> THEN d
    ELSE LET fp == Head(pairs)[1]
             st == Head(pairs)[2]
             d1 == IF fp \in DOMAIN d
                   THEN [d EXCEPT ![fp] = [@ EXCEPT !.sent_state_fp = st]]
                   ELSE d
         IN  Bind(d1, LAMBDA d2 : AckRows(d2, Tail(pairs)))

ack_state(d, pairs) ==
    IF pairs = <<>> THEN d
    ELSE Bind(_migrate_items_table(d), LAMBDA m : AckRows(m, pairs))

----------------------------------------------------------------------------
(* Messages (app/notify.py).  A BarkMessage is a record; None is NoMsg.    *)
(* A body line is a tuple of its label and the values it prints; the       *)
(* Chinese labels and kinds are written with ASCII names.                  *)

NoMsg == [title |-> <<>>, body |-> <<>>, url |-> <<>>, none |-> TRUE]

\* a mutation: the slice keeps the whole list
TakeAll(seq, n) == seq

\* seq[:n]
Take(seq, n) == SubSeq(seq, 1, IF Len(seq) < n THEN Len(seq) ELSE n)

\* the category "作业" (assignment) of a grade item
CatAssignment == <<"Z", "Y">>

\* the display name: whitespace-normalised (the modelled course names carry
\* no code prefix and no term suffix for the two regexes to drop)
simplify_course_name(name) == NormWs(name)

\* humanize_time(v) or v, kept symbolic
TimeText(v) == <<"time", v>>

\* _excerpt(text, 180) of a short text
_excerpt(text) == NormWs(text)

build_bark_message(kind, course_name, item_title, url, lines) ==
    [title |-> <<Or(simplify_course_name(course_name), course_name), kind>>,
     body |-> (IF item_title # <<>> THEN <<<<"title", Strip(item_title)>>>> ELSE <<>>)
                \o lines,
     url |-> url,
     none |-> FALSE]

\* the elements of a sequence of (condition, line) pairs whose condition holds
RECURSIVE Lines(_)
Lines(cl) ==
    IF cl = <<>> THEN <<>>
    ELSE IF Head(cl)[1] THEN <<Head(cl)[2]>> \o Lines(Tail(cl)) ELSE Lines(Tail(cl))

message_for_new_item(item) ==
    LET source == item.source
        course_name == Strip(item.course_name)
        title == Strip(item.title)
        url == Strip(item.url)
        raw == item.raw
    IN  CASE source = "announcement" ->
               LET published == Or(Get(raw, "published_at", <<>>),
                                   Get(raw, "published_at_raw", <<>>))
                   author == Get(raw, "author", <<>>)
                   content == _excerpt(Get(raw, "content", <<>>))
               IN  build_bark_message("new_announcement", course_name, title, url,
                     Lines(<< <<published # <<>>, <<"published", TimeText(published)>>>>,
                              <<author # <<>>, <<"author", author>>>>,
                              <<content # <<>>, <<"content", content>>>> >>))
          [] source = "teaching_content" ->
               LET has_att == Get(raw, "has_attachments", "False") = "True"
                   content == _excerpt(Get(raw, "content", <<>>))
               IN  build_bark_message("new_teaching_content", course_name, title, url,
                     Lines(<< <<TRUE, <<"attachments", has_att>>>>,
                              <<content # <<>>, <<"content", content>>>> >>))
          [] source = "assignment" ->
               LET online == Get(raw, "is_online_submission", "False") = "True"
                   due == Or(Get(raw, "due_at", <<>>), Get(raw, "due_at_raw", <<>>))
                   submitted == Get(raw, "submitted", "None")
                   submitted_at == Get(raw, "submitted_at_raw", <<>>)
               IN  build_bark_message("new_assignment", course_name, title, url,
                     Lines(<< <<online /\ due # <<>>, <<"due", TimeText(due)>>>>,
                              <<online /\ submitted = "True" /\ submitted_at # <<>>,
                                <<"submitted_at", TimeText(submitted_at)>>>>,
                              <<online /\ submitted = "True" /\ submitted_at = <<>>,
                                <<"submitted">>>>,
                              <<~online, <<"online_submission", FALSE>>>> >>))
          [] source = "grade_item" ->
               LET cat == Get(raw, "category", <<>>)
                   grade_raw == Strip(Get(raw, "grade_raw", <<>>))
                   points_raw == Strip(Get(raw, "points_possible_raw", <<>>))
                   due == Or(Get(raw, "duedate_display", <<>>), Get(raw, "duedate", <<>>))
                   lastact == Or(Get(raw, "lastactivity", <<>>),
                                 Get(raw, "lastactivity_display", <<>>))
               IN  build_bark_message("new_grade_item", course_name, title, url,
                     Lines(<< <<cat # <<>>, <<"category", cat>>>>,
                              <<grade_raw # <<>> \/ points_raw # <<>>,
                                <<"grade", grade_raw, points_raw>>>>,
                              <<due # <<>>, <<"due", TimeText(due)>>>>,
                              <<lastact # <<>>, <<"graded_at", TimeText(lastact)>>>> >>))
          [] OTHER -> NoMsg

\* a mutation: only the empty grade is missing
is_missing_grade_empty_only(g) == g = <<>>

\* the em-dash sentinel is written "~"
is_missing_grade(g) == g = <<>> \/ g = <<"-">> \/ g = <<"~">>

GradeItemUpdate(course_name, title, url, new_raw, old_raw) ==
    LET cat == NormWs(Get(new_raw, "category", <<>>))
        old_cat == NormWs(Get(old_raw, "category", <<>>))
        new_grade == NormWs(Get(new_raw, "grade_raw", <<>>))
        old_grade == NormWs(Get(old_raw, "grade_raw", <<>>))
        new_points == NormWs(Get(new_raw, "points_possible_raw", <<>>))
        old_points == NormWs(Get(old_raw, "points_possible_raw", <<>>))
        new_due == NormWs(Or(Get(new_raw, "duedate_display", <<>>),
                             Get(new_raw, "duedate", <<>>)))
        old_due == NormWs(Or(Get(old_raw, "duedate_display", <<>>),
                             Get(old_raw, "duedate", <<>>)))
        new_status == NormWs(Get(new_raw, "status", <<>>))
        old_status == NormWs(Get(old_raw, "status", <<>>))
        is_assignment_grade == cat = CatAssignment \/ old_cat = CatAssignment
        diffs == Lines(<<
            <<old_points # new_points, <<"points", old_points, new_points>>>>,
            <<old_due # new_due, <<"due", TimeText(old_due), TimeText(new_due)>>>>,
            <<old_status # new_status, <<"status", old_status, new_status>>>>,
            <<old_cat # cat, <<"category", old_cat, cat>>>> >>)
    IN  IF is_missing_grade(old_grade) /\ ~is_missing_grade(new_grade)
        THEN build_bark_message(
               IF is_assignment_grade THEN "assignment_grade_posted" ELSE "grade_posted",
               course_name, title, url,
               Lines(<< <<cat # <<>>, <<"category", cat>>>>,
                        <<TRUE, <<"grade", new_grade, new_points>>>>,
                        <<new_due # <<>>, <<"due", TimeText(new_due)>>>>,
                        <<new_status # <<>>, <<"status", new_status>>>> >>))
        ELSE IF old_grade # new_grade
        THEN build_bark_message(
               IF is_assignment_grade THEN "assignment_grade_changed" ELSE "grade_changed",
               course_name, title, url,
               Lines(<< <<cat # <<>>, <<"category", cat>>>>,
                        <<TRUE, <<"old_grade", old_grade, old_points>>>>,
                        <<TRUE, <<"new_grade", new_grade, new_points>>>>,
                        <<new_due # <<>> /\ new_due # old_due,
                          <<"due", TimeText(old_due), TimeText(new_due)>>>>,
                        <<new_status # <<>> /\ new_status # old_status,
                          <<"status", old_status, new_status>>>> >>))
        ELSE IF diffs # <<>>
        THEN build_bark_message("grade_item_updated", course_name, title, url,
                                Take(diffs, 6))
        ELSE NoMsg

AssignmentUpdate(course_name, title, url, new_raw, old_raw) ==
    LET old_url == Or(NormWs(Get(old_raw, "url", <<>>)),
                      NormWs(Get(old_raw, "submission_url", <<>>)))
        new_url == Or(NormWs(Get(new_raw, "url", <<>>)),
                      NormWs(Get(new_raw, "submission_url", <<>>)))
        old_online == Get(old_raw, "is_online_submission", "False") = "True"
        new_online == Get(new_raw, "is_online_submission", "False") = "True"
        old_due == NormWs(Or(Get(old_raw, "due_at", <<>>), Get(old_raw, "due_at_raw", <<>>)))
        new_due == NormWs(Or(Get(new_raw, "due_at", <<>>), Get(new_raw, "due_at_raw", <<>>)))
        old_points == NormWs(Get(old_raw, "points_possible_raw", <<>>))
        new_points == NormWs(Get(new_raw, "points_possible_raw", <<>>))
        old_grade == NormWs(Get(old_raw, "grade_raw", <<>>))
        new_grade == NormWs(Get(new_raw, "grade_raw", <<>>))
        old_submitted == Get(old_raw, "submitted", "None")
        new_submitted == Get(new_raw, "submitted", "None")
        new_submitted_at == NormWs(Get(new_raw, "submitted_at_raw", <<>>))
        sub_changed == old_submitted # new_submitted
                       /\ (old_submitted # "None" \/ new_submitted # "None")
        diffs == Lines(<<
            <<old_online # new_online, <<"online_submission", old_online, new_online>>>>,
            <<sub_changed, <<"submission", old_submitted, new_submitted>>>>,
            <<sub_changed /\ new_submitted = "True" /\ new_submitted_at # <<>>,
              <<"submitted_at", TimeText(new_submitted_at)>>>>,
            <<old_due # new_due /\ (old_due # <<>> \/ new_due # <<>>)
                /\ (new_online \/ old_online),
              <<"due", TimeText(old_due), TimeText(new_due)>>>>,
            <<old_points # new_points /\ (old_points # <<>> \/ new_points # <<>>),
              <<"points", old_points, new_points>>>>,
            <<old_grade # new_grade /\ (old_grade # <<>> \/ new_grade # <<>>),
              <<"grade", old_grade, new_grade>>>>,
            <<old_url # new_url /\ (old_url # <<>> \/ new_url # <<>>), <<"url_changed">>>> >>)
    IN  IF diffs # <<>>
        THEN build_bark_message("assignment_updated", course_name, title, url,
                                Take(diffs, 6))
        ELSE NoMsg

message_for_updated_item(new_item, old_raw) ==
    LET source == new_item.source
        course_name == Strip(new_item.course_name)
        title == Strip(new_item.title)
        url == Strip(new_item.url)
        new_raw == new_item.raw
    IN  CASE source = "grade_item" ->
               GradeItemUpdate(course_name, title, url, new_raw, old_raw)
          [] source = "assignment" ->
               AssignmentUpdate(course_name, title, url, new_raw, old_raw)
          [] OTHER -> NoMsg

----------------------------------------------------------------------------
(* The --run pass of main (app/main.py).  A pending entry is the tuple     *)
(* <<priority, fp, state_fp, msg>> of the code.                            *)

PrioNew == 100
PrioUpdate == 200

\* the decision as it would be if the loop read state_fp, the last state
\* seen, where it reads sent_state_fp
DecideByStoredState(it, existing) ==
    LET fp == identity_fp(it)
        st == state_fp(it)
        sent_state_fp == IF fp \in DOMAIN existing THEN existing[fp].state_fp ELSE NoFp
        old_raw == IF fp \in DOMAIN existing THEN existing[fp].raw ELSE <<>>
    IN  IF sent_state_fp = NoFp
        THEN LET msg == message_for_new_item(it) IN
             [pending |-> IF msg.none THEN <<>> ELSE <<<<PrioNew, fp, st, msg>>>>,
              ack |-> <<>>]
        ELSE IF sent_state_fp = st
        THEN [pending |-> <<>>, ack |-> <<>>]
        ELSE IF it.source \in {"grade_item", "assignment"}
        THEN LET msg == message_for_updated_item(it, old_raw) IN
             IF msg.none
             THEN [pending |-> <<>>, ack |-> <<<<fp, st>>>>]
             ELSE [pending |-> <<<<PrioUpdate, fp, st, msg>>>>, ack |-> <<>>]
        ELSE [pending |-> <<>>, ack |-> <<<<fp, st>>>>]

\* the decision of the loop body for one item: what it appends to pending
\* and to ack_pairs
Decide(it, existing) ==
    LET fp == identity_fp(it)
        st == state_fp(it)
        sent_state_fp == IF fp \in DOMAIN existing THEN existing[fp].sent_state_fp ELSE NoFp
        old_raw == IF fp \in DOMAIN existing THEN existing[fp].raw ELSE <<>>
    IN  IF sent_state_fp = NoFp
        THEN LET msg == message_for_new_item(it) IN
             [pending |-> IF msg.none THEN <<>> ELSE <<<<PrioNew, fp, st, msg>>>>,
              ack |-> <<>>]
        ELSE IF sent_state_fp = st
        THEN [pending |-> <<>>, ack |-> <<>>]
        ELSE IF it.source \in {"grade_item", "assignment"}
        THEN LET msg == message_for_updated_item(it, old_raw) IN
             IF msg.none
             THEN [pending |-> <<>>, ack |-> <<<<fp, st>>>>]
             ELSE [pending |-> <<<<PrioUpdate, fp, st, msg>>>>, ack |-> <<>>]
        ELSE [pending |-> <<>>, ack |-> <<<<fp, st>>>>]

RECURSIVE DecideAll(_, _)
DecideAll(items, existing) ==
    IF items = <<>> THEN [pending |-> <<>>, ack |-> <<>>]
    ELSE LET h == Decide(Head(items), existing)
             r == DecideAll(Tail(items), existing)
         IN  [pending |-> h.pending \o r.pending, ack |-> h.ack \o r.ack]

\* the sort key as it would be without the minus sign: (t[0], t[1])
KeyLessAscending(a, b) ==
    \/ a[1] < b[1]
    \/ (a[1] = b[1] /\ FpRank(a[2]) < FpRank(b[2]))

\* the sort key (-t[0], t[1]) compared
KeyLess(a, b) ==
    \/ (0 - a[1]) < (0 - b[1])
    \/ (a[1] = b[1] /\ FpRank(a[2]) < FpRank(b[2]))

\* list.sort is stable: x goes behind every entry that is not greater
RECURSIVE InsertSorted(_, _)
InsertSorted(x, sorted) ==
    IF sorted = <<>> THEN <<x>>
    ELSE IF KeyLess(x, Head(sorted)) THEN <<x>> \o sorted
         ELSE <<Head(sorted)>> \o InsertSorted(x, Tail(sorted))

RECURSIVE SortPending(_)
SortPending(p) ==
    IF p = <<>> THEN <<>>
    ELSE Bind(SortPending(SubSeq(p, 1, Len(p) - 1)),
              LAMBDA sorted : InsertSorted(p[Len(p)], sorted))

\* args.limit if args.limit and args.limit > 0 else config.poll_limit_per_run
EffectiveLimit(args_limit, poll_limit_per_run) ==
    IF args_limit > 0 THEN args_limit ELSE poll_limit_per_run

ToSend(sorted, limit) == IF limit > 0 THEN Take(sorted, limit) ELSE sorted

\* the send loop: the (fp, state_fp) of the entries whose send_bark returned
RECURSIVE SentPairs(_, _, _)
SentPairs(to_send, ok, pushing) ==
    IF to_send = <<>> THEN <<>>
    ELSE (IF pushing /\ Head(ok) THEN <<<<Head(to_send)[2], Head(to_send)[3]>>>> ELSE <<>>)
         \o SentPairs(Tail(to_send), Tail(ok), pushing)

\* main, lines 79 and 286-325: init_db, fetch_records, the decision loop,
\* upsert_seen and ack_state, from the store d, the fetched items and the
\* clock reading t; ack_missed is the pairs of ack_pairs whose UPDATE finds
\* no row
RunDecide(d, items, t) ==
    LET fps == [i \in DOMAIN items |-> identity_fp(items[i])] IN
    Bind(init_db(d), LAMBDA d0 :
    Bind(fetch_records(d0, fps), LAMBDA existing :
    Bind(IF fps = <<>> THEN d0 ELSE _migrate_items_table(d0), LAMBDA d1 :
    Bind(DecideAll(items, existing), LAMBDA dec :
    Bind(upsert_seen(d1, items, t), LAMBDA d2 :
      [db |-> IF dec.ack # <<>> THEN ack_state(d2, dec.ack) ELSE d2,
       existing |-> existing, enqueued |-> dec.pending,
       pending |-> SortPending(dec.pending), ack_pairs |-> dec.ack,
       ack_missed |-> {p \in {dec.ack[i] : i \in DOMAIN dec.ack} :
                         p[1] \notin DOMAIN d2}])))))

\* main, lines 327-369: the limit, the send loop and mark_notified, from the
\* flags, the effective limit, the outcome ok[i] of the i-th send_bark call
\* and the clock reading t; mark_missed is the pairs of sent_pairs whose
\* UPDATE finds no row
RunSend(dec, dry_run, endpoint, limit, ok, t) ==
    LET pushing == ~dry_run /\ endpoint IN
    Bind(ToSend(dec.pending, limit), LAMBDA to_send :
    Bind(SentPairs(to_send, ok, pushing), LAMBDA sent_pairs :
      [db |-> IF sent_pairs # <<>> /\ pushing
              THEN mark_notified(dec.db, sent_pairs, t) ELSE dec.db,
       to_send |-> to_send, sent_pairs |-> sent_pairs,
       mark_missed |-> IF pushing
                       THEN {p \in {sent_pairs[i] : i \in DOMAIN sent_pairs} :
                               p[1] \notin DOMAIN dec.db}
                       ELSE {}]))

----------------------------------------------------------------------------
(* State: db is the items table, now the clock that _now_iso() reads, last *)
(* the record of the latest operation (its arguments, what it computed     *)
(* and, for a store operation, the table it found) and catalog the boards  *)
(* of the course that hold content in this behaviour.                      *)

Sources == {"announcement", "teaching_content", "assignment", "grade_item"}

\* two of the four boards hold content in one behaviour: one whose updates
\* are notified and one whose updates are acknowledged silently
Catalogs == {{"announcement", "grade_item"}, {"teaching_content", "assignment"}}

RECURSIVE SeqsUpTo(_, _)
SeqsUpTo(S, n) ==
    IF n = 0 THEN {<<>>}
    ELSE LET shorter == SeqsUpTo(S, n - 1) IN
         shorter \cup {Append(q, x) : q \in {r \in shorter : Len(r) = n - 1}, x \in S}

CatalogItems == {it \in Items : it.source \in catalog}

\* a fetched list: any items of the catalog in any order; one identity can
\* occur twice (fetch_all_items de-duplicates nothing, and courses are made
\* unique by URL only)
ItemLists == SeqsUpTo(CatalogItems, MaxItems)

FpLists == SeqsUpTo({identity_fp(it) : it \in CatalogItems}, MaxItems)

PairLists ==
    SeqsUpTo({<<identity_fp(it), state_fp(it)>> : it \in CatalogItems}, MaxItems)

Blank ==
    [op |-> "none", items |-> <<>>, fps |-> <<>>, pairs |-> <<>>,
     dry_run |-> FALSE, endpoint |-> FALSE, limit |-> 0, ok |-> <<>>,
     existing |-> <<>>, enqueued |-> <<>>, pending |-> <<>>, ack_pairs |-> <<>>,
     to_send |-> <<>>, sent_pairs |-> <<>>, missed |-> {},
     classes |-> <<>>, filtered |-> {}, before |-> <<>>]

Init ==
    /\ db = <<>>
    /\ now = 0
    /\ last = Blank
    /\ catalog \in Catalogs

\* time passes between two operations
Tick ==
    /\ last.op = "none"
    /\ now < MaxTime
    /\ now' = now + 1
    /\ UNCHANGED <<db, last, catalog>>

\* the operation returns: its arguments and locals are gone
Return ==
    /\ last.op # "none"
    /\ last' = Blank
    /\ UNCHANGED <<db, now, catalog>>

\* one invocation of main with --run, up to its return statement
Run ==
    /\ last.op = "none"
    /\ \E items \in ItemLists :
       \E dec \in {RunDecide(db, items, now)} :
       \E limit \in {EffectiveLimit(a, p) : a \in 0..MaxLimit, p \in 0..MaxLimit},
          dry_run \in BOOLEAN, endpoint \in BOOLEAN :
       \E ok \in [1..(IF ~dry_run /\ endpoint
                      THEN Len(ToSend(dec.pending, limit)) ELSE 0) -> BOOLEAN] :
       \E r \in {RunSend(dec, dry_run, endpoint, limit, ok, now)} :
         /\ db' = r.db
         /\ last' = [Blank EXCEPT !.op = "run", !.items = items,
                       !.dry_run = dry_run, !.endpoint = endpoint,
                       !.limit = limit, !.ok = ok,
                       !.existing = [fp \in DOMAIN dec.existing |->
                                       [dec.existing[fp] EXCEPT !.raw = <<>>]],
                       !.enqueued = dec.enqueued,
                       !.pending = dec.pending, !.ack_pairs = dec.ack_pairs,
                       !.to_send = r.to_send, !.sent_pairs = r.sent_pairs,
                       !.missed = dec.ack_missed \cup r.mark_missed]
    /\ UNCHANGED <<now, catalog>>

Next == Run \/ Return \/ Tick

Spec == Init /\ [][Next]_vars

----------------------------------------------------------------------------
(* The store operations called one at a time, in any order, by a client of *)
(* app/store.py.  Every operation but init_db returns before it opens the  *)
(* database when its list is empty; otherwise it runs the migration first  *)
(* and commits when the connection block ends.                             *)

\* the boards that hold content in a behaviour of the store operations
StoreCatalogs == {{"announcement", "teaching_content"}}

StoreInit ==
    /\ db = <<>>
    /\ now = 0
    /\ last = Blank
    /\ catalog \in StoreCatalogs

\* the table after a reading operation given the list args
AfterRead(d, args) == IF args = <<>> THEN d ELSE _migrate_items_table(d)

InitDb ==
    /\ last.op = "none"
    /\ db' = init_db(db)
    /\ last' = [Blank EXCEPT !.op = "init_db", !.before = db]
    /\ UNCHANGED <<now, catalog>>

UpsertSeen ==
    /\ last.op = "none"
    /\ \E items \in ItemLists :
         /\ db' = upsert_seen(db, items, now)
         /\ last' = [Blank EXCEPT !.op = "upsert_seen", !.items = items, !.before = db]
    /\ UNCHANGED <<now, catalog>>

BulkFilterNew ==
    /\ last.op = "none"
    /\ \E items \in ItemLists :
         /\ db' = AfterRead(db, items)
         /\ last' = [Blank EXCEPT !.op = "bulk_filter_new", !.items = items,
                       !.filtered = bulk_filter_new(db, items), !.before = db]
    /\ UNCHANGED <<now, catalog>>

BulkClassify ==
    /\ last.op = "none"
    /\ \E items \in ItemLists :
         /\ db' = AfterRead(db, items)
         /\ last' = [Blank EXCEPT !.op = "bulk_classify", !.items = items,
                       !.classes = bulk_classify(db, items), !.before = db]
    /\ UNCHANGED <<now, catalog>>

FetchRecords ==
    /\ last.op = "none"
    /\ \E fps \in FpLists :
         /\ db' = AfterRead(db, fps)
         /\ last' = [Blank EXCEPT !.op = "fetch_records", !.fps = fps,
                       !.existing = fetch_records(db, fps), !.before = db]
    /\ UNCHANGED <<now, catalog>>

MarkSent ==
    /\ last.op = "none"
    /\ \E fps \in FpLists :
         /\ db' = mark_sent(db, fps, now)
         /\ last' = [Blank EXCEPT !.op = "mark_sent", !.fps = fps, !.before = db]
    /\ UNCHANGED <<now, catalog>>

MarkNotified ==
    /\ last.op = "none"
    /\ \E pairs \in PairLists :
         /\ db' = mark_notified(db, pairs, now)
         /\ last' = [Blank EXCEPT !.op = "mark_notified", !.pairs = pairs, !.before = db]
    /\ UNCHANGED <<now, catalog>>

AckState ==
    /\ last.op = "none"
    /\ \E pairs \in PairLists :
         /\ db' = ack_state(db, pairs)
         /\ last' = [Blank EXCEPT !.op = "ack_state", !.pairs = pairs, !.before = db]
    /\ UNCHANGED <<now, catalog>>

StoreNext ==
    \/ InitDb \/ UpsertSeen \/ BulkFilterNew \/ BulkClassify \/ FetchRecords
    \/ MarkSent \/ MarkNotified \/ AckState \/ Return \/ Tick

StoreSpec == StoreInit /\ [][StoreNext]_vars

----------------------------------------------------------------------------
(* Properties of the run.  They are stated on the state a run leaves: db   *)
(* is the table after the run and last holds what the run was given and    *)
(* what it computed; last.existing is the records the run fetched before   *)
(* its decision loop.                                                      *)

Range(q) == {q[i] : i \in DOMAIN q}

AfterRun == last.op = "run"

\* the run pushes: not --dry-run, and the endpoint is not empty
Pushing == ~last.dry_run /\ last.endpoint

DistinctIdentities(items) ==
    \A i, j \in DOMAIN items :
       identity_fp(items[i]) = identity_fp(items[j]) => i = j

\* the sent_state_fp and sent_at the run found stored for an identity
PrevSentStateFp(fp) ==
    IF fp \in DOMAIN last.existing THEN last.existing[fp].sent_state_fp ELSE NoFp

PrevSentAt(fp) ==
    IF fp \in DOMAIN last.existing THEN last.existing[fp].sent_at ELSE NoTime

\* the i-th entry of the sorted pending list was pushed and send_bark returned
Pushed(i) == Pushing /\ i \in DOMAIN last.to_send /\ last.ok[i]

\* what the decision loop of the next run over the same list computes
NextRun == RunDecide(db, last.items, now)

Count(q, e) == Cardinality({i \in DOMAIN q : q[i] = e})

\* the entries of q with the priority and fingerprint of e, in their order
SameKeyEntries(q, e) == SelectSeq(q, LAMBDA x : x[1] = e[1] /\ x[2] = e[2])

NewKind(source) ==
    CASE source = "announcement" -> "new_announcement"
      [] source = "teaching_content" -> "new_teaching_content"
      [] source = "assignment" -> "new_assignment"
      [] source = "grade_item" -> "new_grade_item"

\* C1, as claimed: when the push of a message fails, the run leaves the
\* sent_state_fp of the item where it was, and the next run that observes
\* the item in the same state (here: the same list again) enqueues a message
\* for it again, whether the message was a new-item or an update message.
\* Stated on lists of distinct identities.
C1_FailedPushIsRetried ==
    (AfterRun /\ Pushing /\ DistinctIdentities(last.items)) =>
      \A i \in DOMAIN last.to_send :
        ~last.ok[i] =>
          LET fp == last.to_send[i][2]
              st == last.to_send[i][3]
          IN  /\ db[fp].sent_state_fp = PrevSentStateFp(fp)
              /\ \E e \in Range(NextRun.enqueued) : e[2] = fp /\ e[3] = st

\* C3, as claimed: mark_notified is given exactly the (fp, state_fp) of the
\* entries whose push returned; an item whose message was enqueued and whose
\* (fp, state_fp) no push of the run delivered (the push failed, the limit
\* cut it off, --dry-run or an empty endpoint) has the sent_state_fp and
\* sent_at it had before the run.
C3_OnlyPushedAreMarked ==
    AfterRun =>
      /\ Range(last.sent_pairs) =
           {<<last.to_send[i][2], last.to_send[i][3]>> :
              i \in {j \in DOMAIN last.to_send : Pushed(j)}}
      /\ Len(last.sent_pairs) = Cardinality({j \in DOMAIN last.to_send : Pushed(j)})
      /\ \A i \in DOMAIN last.pending :
           LET fp == last.pending[i][2] IN
           IF Pushed(i)
           THEN /\ db[fp].sent_at = now
                /\ \E p \in Range(last.sent_pairs) :
                      p[1] = fp /\ db[fp].sent_state_fp = p[2]
           ELSE (\A j \in DOMAIN last.pending :
                   (last.pending[j][2] = fp /\ last.pending[j][3] = last.pending[i][3])
                     => ~Pushed(j)) =>
                  /\ db[fp].sent_state_fp = PrevSentStateFp(fp)
                  /\ db[fp].sent_at = PrevSentAt(fp)

\* C4, as claimed: when every message a run enqueued was pushed successfully
\* (endpoint set, no --dry-run, nothing cut off by the limit), the run that
\* follows over the identical list enqueues nothing (so pushes nothing) and
\* acknowledges nothing.
C4_SecondRunIsQuiet ==
    (AfterRun /\ Pushing /\ last.to_send = last.pending
       /\ \A i \in DOMAIN last.to_send : last.ok[i]) =>
      /\ NextRun.enqueued = <<>>
      /\ NextRun.ack_pairs = <<>>

C6_EnqueuedOrAcknowledgedOnce ==
    AfterRun =>
      /\ \A i \in DOMAIN last.items :
           LET fp == identity_fp(last.items[i])
               st == state_fp(last.items[i])
           IN  (PrevSentStateFp(fp) # NoFp /\ PrevSentStateFp(fp) # st) =>
                 \/ \E e \in Range(last.enqueued) : e[2] = fp /\ e[3] = st
                 \/ (<<fp, st>> \in Range(last.ack_pairs) /\ db[fp].sent_state_fp = st)
      /\ \A p \in Range(last.ack_pairs) :
           /\ p \notin Range(NextRun.ack_pairs)
           /\ ~\E e \in Range(NextRun.enqueued) : e[2] = p[1] /\ e[3] = p[2]

\* C7: an item of one of the four sources for which the run finds no stored
\* row, or a row whose sent_state_fp is empty, gets a new-item message of its
\* source enqueued (priority 100, its fingerprint and state), whatever the
\* stored state_fp is and whether or not an earlier push for it failed.
C7_NeverNotifiedIsNew ==
    AfterRun =>
      \A i \in DOMAIN last.items :
        LET it == last.items[i]
            fp == identity_fp(it)
            st == state_fp(it)
        IN  (it.source \in Sources /\ PrevSentStateFp(fp) = NoFp) =>
              \E e \in Range(last.enqueued) :
                 /\ e[1] = PrioNew /\ e[2] = fp /\ e[3] = st
                 /\ ~e[4].none
                 /\ e[4].title[2] = NewKind(it.source)

\* a run that finds a row left by an earlier run whose push did not succeed,
\* stored in the very state the item is observed in, and enqueues the item
C7_Witness ==
    /\ AfterRun
    /\ \E i \in DOMAIN last.items :
         LET fp == identity_fp(last.items[i]) IN
         /\ fp \in DOMAIN last.existing
         /\ last.existing[fp].sent_state_fp = NoFp
         /\ last.existing[fp].state_fp = state_fp(last.items[i])
         /\ \E e \in Range(last.enqueued) : e[1] = PrioNew /\ e[2] = fp

\* C8, as claimed: an announcement or teaching-content item whose state
\* differs from its non-empty stored sent_state_fp gets no message and is
\* acknowledged: after the run sent_state_fp is the state of the item and
\* sent_at is what it was.
C8_SilentSourcesAreAcknowledged ==
    AfterRun =>
      \A i \in DOMAIN last.items :
        LET it == last.items[i]
            fp == identity_fp(it)
            st == state_fp(it)
        IN  (it.source \in {"announcement", "teaching_content"}
             /\ PrevSentStateFp(fp) # NoFp /\ PrevSentStateFp(fp) # st) =>
              /\ ~\E e \in Range(last.pending) : e[2] = fp
              /\ <<fp, st>> \in Range(last.ack_pairs)
              /\ db[fp].sent_state_fp = st
              /\ db[fp].sent_at = PrevSentAt(fp)

----------------------------------------------------------------------------
(* Properties of the store operations.  They are stated on the state an    *)
(* operation leaves: last.before is the table it found, db the table it    *)
(* left.                                                                   *)

\* the condition of the backfill UPDATE of the migration
BackfillDue(r) == r.sent_state_fp = NoFp /\ r.sent_at # NoTime /\ r.state_fp # NoFp

\* the last item of a list with a given identity
LastWith(items, fp) ==
    items[CHOOSE i \in DOMAIN items :
            /\ identity_fp(items[i]) = fp
            /\ \A j \in DOMAIN items : identity_fp(items[j]) = fp => j <= i]

FpsOf(items) == {identity_fp(items[i]) : i \in DOMAIN items}

SameButUpdatedAt(d1, d2) ==
    /\ DOMAIN d1 = DOMAIN d2
    /\ \A fp \in DOMAIN d1 :
          [d1[fp] EXCEPT !.updated_at = NoTime] = [d2[fp] EXCEPT !.updated_at = NoTime]

\* C2, as claimed: whatever store operation ran, the sent_state_fp of a row
\* is changed only by mark_notified or ack_state given that identity.
C2_OnlyMarkOrAckChange ==
    last.op # "none" =>
      \A fp \in DOMAIN last.before :
        db[fp].sent_state_fp # last.before[fp].sent_state_fp =>
          /\ last.op \in {"mark_notified", "ack_state"}
          /\ \E p \in Range(last.pairs) : p[1] = fp

\* C2, amended: the sent_state_fp of a row is changed only by mark_notified
\* or ack_state given that identity (to the state given), or by the backfill
\* of the migration that every store operation runs when it opens the table
\* (a row with empty sent_state_fp, non-empty sent_at and non-empty state_fp
\* gets its stored state_fp); a row that upsert_seen inserts has an empty
\* sent_state_fp, and its INSERT .. ON CONFLICT never writes the column.
C2_SentStateFpFrame ==
    last.op # "none" =>
      /\ \A fp \in DOMAIN last.before :
           /\ fp \in DOMAIN db
           /\ db[fp].sent_state_fp # last.before[fp].sent_state_fp =>
                \/ /\ last.op \in {"mark_notified", "ack_state"}
                   /\ \E p \in Range(last.pairs) :
                         p[1] = fp /\ db[fp].sent_state_fp = p[2]
                \/ /\ BackfillDue(last.before[fp])
                   /\ db[fp].sent_state_fp = last.before[fp].state_fp
      /\ \A fp \in DOMAIN db \ DOMAIN last.before :
           /\ last.op = "upsert_seen"
           /\ db[fp].sent_state_fp = NoFp

\* upsert_seen found a row that mark_sent had left without sent_state_fp,
\* and left it with the state it was stored in and a new stored state
C2_Witness ==
    /\ last.op = "upsert_seen"
    /\ \E fp \in DOMAIN last.before :
         /\ BackfillDue(last.before[fp])
         /\ db[fp].sent_state_fp = last.before[fp].state_fp
         /\ db[fp].state_fp # last.before[fp].state_fp

\* C9: after upsert_seen the table has the rows it had and one row for each
\* identity of the list (rows are keyed by fp), the state_fp of such a row is
\* that of the last item of the list with the identity, created_at of a row
\* that existed is kept and that of a new row is the time of the call, and
\* calling upsert_seen again with the same list, then or later, changes no
\* row in any column but updated_at.
C9_UpsertIdempotent ==
    last.op = "upsert_seen" =>
      /\ DOMAIN db = DOMAIN last.before \cup FpsOf(last.items)
      /\ \A fp \in FpsOf(last.items) :
           /\ db[fp].state_fp = state_fp(LastWith(last.items, fp))
           /\ db[fp].created_at =
                IF fp \in DOMAIN last.before THEN last.before[fp].created_at ELSE now
           /\ db[fp].updated_at = now
      /\ \A fp \in DOMAIN last.before \ FpsOf(last.items) :
           db[fp].state_fp = last.before[fp].state_fp
           /\ db[fp].created_at = last.before[fp].created_at
      /\ \A t \in now..MaxTime :
           SameButUpdatedAt(upsert_seen(db, last.items, t), db)

\* upsert_seen met a row inserted earlier, in another state
C9_Witness ==
    /\ last.op = "upsert_seen"
    /\ \E fp \in FpsOf(last.items) \cap DOMAIN last.before :
         /\ last.before[fp].created_at < now
         /\ last.before[fp].state_fp # db[fp].state_fp
         /\ db[fp].created_at < db[fp].updated_at

\* C10: bulk_classify puts the (last) item of each identity of its list in
\* exactly one of new, updated and unchanged: new when no row has the
\* identity, updated when the stored state_fp differs from the state of the
\* item, unchanged when they are equal; sent_state_fp has no influence; after
\* upsert_seen([item]) the item classifies as unchanged, and an item of the
\* same identity in another state as updated.
C10_ClassifyPartition ==
    /\ last.op = "bulk_classify" =>
         LET c == last.classes
             rep == {LastWith(last.items, fp) : fp \in FpsOf(last.items)}
         IN  /\ c.new \cup c.updated \cup c.unchanged = rep
             /\ c.new \cap c.updated = {}
             /\ c.new \cap c.unchanged = {}
             /\ c.updated \cap c.unchanged = {}
             /\ \A it \in rep :
                  LET fp == identity_fp(it) IN
                  /\ it \in c.new <=> fp \notin DOMAIN last.before
                  /\ it \in c.updated <=>
                       (fp \in DOMAIN last.before
                        /\ last.before[fp].state_fp # state_fp(it))
                  /\ it \in c.unchanged <=>
                       (fp \in DOMAIN last.before
                        /\ last.before[fp].state_fp = state_fp(it))
             /\ \A s \in {NoFp} \cup {state_fp(it) : it \in CatalogItems} :
                  bulk_classify([fp \in DOMAIN last.before |->
                                   [last.before[fp] EXCEPT !.sent_state_fp = s]],
                                last.items) = c
    /\ last.op = "none" =>
         \A it \in CatalogItems :
           LET d == upsert_seen(db, <<it>>, now) IN
           /\ bulk_classify(d, <<it>>) = [new |-> {}, updated |-> {}, unchanged |-> {it}]
           /\ \A it2 \in CatalogItems :
                (identity_fp(it2) = identity_fp(it) /\ state_fp(it2) # state_fp(it)) =>
                  bulk_classify(d, <<it2>>) =
                    [new |-> {}, updated |-> {it2}, unchanged |-> {}]

\* a classification with an updated and an unchanged item, the unchanged one
\* stored with a sent_state_fp that is not its state
C10_Witness ==
    /\ last.op = "bulk_classify"
    /\ last.classes.updated # {}
    /\ \E it \in last.classes.unchanged :
         last.before[identity_fp(it)].sent_state_fp # state_fp(it)

\* the state of the last pair of a list given for an identity
LastStateFor(pairs, fp) ==
    pairs[CHOOSE i \in DOMAIN pairs :
            /\ pairs[i][1] = fp
            /\ \A j \in DOMAIN pairs : pairs[j][1] = fp => j <= i][2]

ListedFps(pairs) == {pairs[i][1] : i \in DOMAIN pairs}

\* C11, as claimed: mark_notified sets sent_state_fp and sent_at of each
\* listed identity that has a row, ack_state sets sent_state_fp only; neither
\* changes another column, creates a row, or changes a row that is not listed.
C11_MarkAndAckTouchOnlyListed ==
    last.op \in {"mark_notified", "ack_state"} =>
      /\ DOMAIN db = DOMAIN last.before
      /\ \A fp \in DOMAIN last.before :
           IF fp \in ListedFps(last.pairs)
           THEN db[fp] =
                  IF last.op = "mark_notified"
                  THEN [last.before[fp] EXCEPT
                          !.sent_state_fp = LastStateFor(last.pairs, fp),
                          !.sent_at = now]
                  ELSE [last.before[fp] EXCEPT
                          !.sent_state_fp = LastStateFor(last.pairs, fp)]
           ELSE db[fp] = last.before[fp]

\* C11, amended: as claimed, except that both operations, given a list that
\* is not empty, first run the migration backfill, which gives a row that is
\* not listed and has an empty sent_state_fp, a non-empty sent_at and a
\* non-empty state_fp its stored state_fp as sent_state_fp.
C11_MarkAndAckFrame ==
    last.op \in {"mark_notified", "ack_state"} =>
      /\ DOMAIN db = DOMAIN last.before
      /\ \A fp \in DOMAIN last.before :
           IF fp \in ListedFps(last.pairs)
           THEN db[fp] =
                  IF last.op = "mark_notified"
                  THEN [last.before[fp] EXCEPT
                          !.sent_state_fp = LastStateFor(last.pairs, fp),
                          !.sent_at = now]
                  ELSE [last.before[fp] EXCEPT
                          !.sent_state_fp = LastStateFor(last.pairs, fp)]
           ELSE IF last.pairs # <<>> /\ BackfillDue(last.before[fp])
                THEN db[fp] = [last.before[fp] EXCEPT
                                 !.sent_state_fp = last.before[fp].state_fp]
                ELSE db[fp] = last.before[fp]

\* ack_state gave a notified row another sent_state_fp and kept its sent_at,
\* given also an identity that has no row
C11_Witness ==
    /\ last.op = "ack_state"
    /\ \E fp \in ListedFps(last.pairs) \cap DOMAIN last.before :
         /\ last.before[fp].sent_at # NoTime
         /\ db[fp].sent_state_fp # last.before[fp].sent_state_fp
         /\ db[fp].sent_at = last.before[fp].sent_at
    /\ ListedFps(last.pairs) \ DOMAIN last.before # {}

----------------------------------------------------------------------------
(* The fingerprints as functions of an Item.  An item is lifted from a     *)
(* parsed record, loses its external id or its url when the board gives    *)
(* none, and is then compared with the item that differs from it in up to  *)
(* MaxChanges fields.  last.items holds the two items, last.fps their      *)
(* identity_fp and last.pairs their state_fp.                              *)

\* the number of fields in which the second item differs from the first
MaxChanges == 2

FpRecords ==
    { [source |-> "announcement", course_id |-> <<"c">>, course_name |-> <<"M">>,
       announcement_id |-> <<"h">>, title |-> <<"N">>, url |-> <<"u">>,
       published_at |-> <<"1">>, published_at_raw |-> <<"1">>,
       author |-> <<"A">>, content |-> <<"x", SP, "y">>],
      [source |-> "teaching_content", course_id |-> <<"c">>, course_name |-> <<"M">>,
       content_item_id |-> <<"t">>, title |-> <<"L">>, url |-> <<"v">>,
       has_attachments |-> "False", content |-> <<"x", SP, "y">>],
      [source |-> "assignment", course_id |-> <<"c">>, course_name |-> <<"M">>,
       content_item_id |-> <<"h">>, title |-> <<"H">>, url |-> <<"w">>,
       is_online_submission |-> "True", submitted |-> "False",
       submitted_at_raw |-> <<>>, grade_raw |-> <<"9">>,
       points_possible_raw |-> <<"1", "0">>, due_at_raw |-> <<"d">>],
      [source |-> "grade_item", course_id |-> <<"c">>, course_name |-> <<"M">>,
       row_id |-> <<"g">>, title |-> <<"Q">>, url |-> <<"z">>,
       category |-> <<"T">>, status |-> <<"o", SP, "k">>, grade_raw |-> <<"9">>,
       points_possible_raw |-> <<"1", "0">>, lastactivity |-> <<"2">>,
       duedate |-> <<"3">>] }

\* the boards give an item an id, or only a link, or neither
KeyShapes == {"external_id", "url", "title"}

Shape(it, shape) ==
    CASE shape = "external_id" -> it
      [] shape = "url" -> [it EXCEPT !.external_id = <<>>]
      [] shape = "title" -> [it EXCEPT !.external_id = <<>>, !.url = <<>>]

ItemTextFields == {"course_id", "course_name", "title", "url", "due", "ts", "external_id"}

RawTextKeys ==
    {"published_at", "published_at_raw", "author", "content", "submitted_at_raw",
     "grade_raw", "points_possible_raw", "category", "status", "course_name",
     "lastactivity_display"}

RawFlagKeys == {"has_attachments", "is_online_submission", "submitted"}

FlagValues(k) == IF k = "submitted" THEN {"None", "False", "True"} ELSE {"False", "True"}

\* another value, or the same value with other whitespace
TextEdits == {"other", "clear", "pad_left", "pad_right", "widen"}

\* every interior or outer space doubled
RECURSIVE Widen(_)
Widen(v) ==
    IF v = <<>> THEN <<>>
    ELSE IF IsSpace(Head(v)) THEN <<SP, SP>> \o Widen(Tail(v))
         ELSE <<Head(v)>> \o Widen(Tail(v))

EditText(v, e) ==
    CASE e = "other" -> <<"Z">>
      [] e = "clear" -> <<>>
      [] e = "pad_left" -> <<SP>> \o v
      [] e = "pad_right" -> v \o <<SP>>
      [] e = "widen" -> Widen(v)

SetKey(raw, k, v) == [x \in DOMAIN raw \cup {k} |-> IF x = k THEN v ELSE raw[x]]

Changes ==
    [at : {"item"}, field : ItemTextFields, to : TextEdits]
    \cup [at : {"item"}, field : {"source"}, to : Sources]
    \cup [at : {"raw"}, field : RawTextKeys, to : TextEdits]
    \cup UNION {[at : {"raw"}, field : {k}, to : FlagValues(k)] : k \in RawFlagKeys}

Change(it, ch) ==
    IF ch.at = "item"
    THEN IF ch.field = "source" THEN [it EXCEPT !.source = ch.to]
         ELSE [it EXCEPT ![ch.field] = EditText(@, ch.to)]
    ELSE IF ch.field \in RawFlagKeys
         THEN [it EXCEPT !.raw = SetKey(@, ch.field, ch.to)]
         ELSE [it EXCEPT !.raw = SetKey(@, ch.field,
                                        EditText(Get(@, ch.field, <<>>), ch.to))]

RECURSIVE ChangeAll(_, _)
ChangeAll(it, chs) ==
    IF chs = <<>> THEN it ELSE ChangeAll(Change(it, Head(chs)), Tail(chs))

FpInit ==
    /\ db = <<>>
    /\ now = 0
    /\ last = Blank
    /\ catalog = {}

\* identity_fp() and state_fp() of two items
Fingerprint ==
    /\ last.op = "none"
    /\ \E d \in FpRecords, shape \in KeyShapes, chs \in SeqsUpTo(Changes, MaxChanges) :
       \E a \in {Shape(_as_item(d), shape)} :
       \E b \in {ChangeAll(a, chs)} :
         last' = [Blank EXCEPT !.op = "fingerprint", !.items = <<a, b>>,
                    !.fps = <<identity_fp(a), identity_fp(b)>>,
                    !.pairs = <<state_fp(a), state_fp(b)>>]
    /\ UNCHANGED <<db, now, catalog>>

FpNext == Fingerprint \/ Return

FpSpec == FpInit /\ [][FpNext]_vars

----------------------------------------------------------------------------
(* Properties of the fingerprints, on the state Fingerprint leaves.        *)

ItemA == last.items[1]
ItemB == last.items[2]

\* the one key identity_fp hashes: the first of external id, url and title
\* that is not empty once trimmed, with its name
ChosenKey(it) ==
    IF Strip(it.external_id) # <<>> THEN <<"external_id", Strip(it.external_id)>>
    ELSE IF Strip(it.url) # <<>> THEN <<"url", Strip(it.url)>>
    ELSE <<"title", Strip(it.title)>>

SameIdentityInputs(a, b) ==
    /\ a.source = b.source
    /\ Strip(a.course_id) = Strip(b.course_id)
    /\ ChosenKey(a) = ChosenKey(b)

\* C12: identity_fp depends on the source, the trimmed course_id and the
\* chosen key (external_id before url before title, the first that is not
\* empty after trimming) only: two items that agree on the three have the
\* same identity_fp whatever their other fields are, padding of title and
\* url included, and two items that differ in one of the three have
\* different identity_fp.
C12_IdentityFpByChosenKey ==
    last.op = "fingerprint" =>
      (last.fps[1] = last.fps[2] <=> SameIdentityInputs(ItemA, ItemB))

\* two items keyed by their url that differ in the padding of the url and
\* in title and raw, and so have one identity
C12_Witness ==
    /\ last.op = "fingerprint"
    /\ ChosenKey(ItemA)[1] = "url"
    /\ ItemA.url # ItemB.url
    /\ ItemA.title # ItemB.title
    /\ last.fps[1] = last.fps[2]

\* the fields every source's state holds beside the identity, trimmed
CommonStateFields == {"title", "url", "due", "ts"}

\* the raw fields the state of a source holds
StateRawKeys(source) ==
    CASE source = "announcement" -> {"published_at", "published_at_raw", "author", "content"}
      [] source = "teaching_content" -> {"has_attachments", "content"}
      [] source = "assignment" ->
           {"is_online_submission", "submitted", "submitted_at_raw", "grade_raw",
            "points_possible_raw"}
      [] source = "grade_item" -> {"category", "status", "grade_raw", "points_possible_raw"}
      [] OTHER -> {}

\* the value of raw field k, as a change of the field is observed
RawValue(it, k) ==
    IF k = "submitted" THEN Get(it.raw, k, "None")
    ELSE IF k \in RawFlagKeys THEN Get(it.raw, k, "False") = "True"
    ELSE Get(it.raw, k, <<>>)

SameRaw(a, b, keys) == \A k \in keys : RawValue(a, k) = RawValue(b, k)

SameCommon(a, b, fields) == \A f \in fields : Strip(a[f]) = Strip(b[f])

\* C13 as stated, with the projection of a source being the listed fields
\* and nothing else: for two grade items, or two assignments, of one
\* identity, state_fp differs exactly when a listed field differs
\* (grade_item: category, status, grade_raw, points_possible_raw;
\* assignment: online-submission flag, submitted, submitted_at_raw,
\* grade_raw, points_possible_raw, due).
C13_ListedFieldsDecide ==
    (/\ last.op = "fingerprint"
     /\ ItemA.source = ItemB.source
     /\ ItemA.source \in {"grade_item", "assignment"}
     /\ last.fps[1] = last.fps[2])
    => (last.pairs[1] = last.pairs[2]
          <=> /\ SameRaw(ItemA, ItemB, StateRawKeys(ItemA.source))
              /\ ItemA.source = "assignment" => SameCommon(ItemA, ItemB, {"due"}))

\* C13, amended: the state of every source holds the identity and the
\* trimmed title, url, due and ts beside the raw fields of the source.  For
\* two items of one source state_fp differs exactly when the identity, one
\* of these four fields or one of the source's raw fields differs; a change
\* of any other field (course_name, other raw fields, padding) leaves it
\* unchanged.
C13_StateFieldsDecide ==
    (/\ last.op = "fingerprint"
     /\ ItemA.source = ItemB.source)
    => (last.pairs[1] = last.pairs[2]
          <=> /\ last.fps[1] = last.fps[2]
              /\ SameCommon(ItemA, ItemB, CommonStateFields)
              /\ SameRaw(ItemA, ItemB, StateRawKeys(ItemA.source)))

\* a grade item whose title and course name change while its listed raw
\* fields stay: the state changes
C13_Witness ==
    /\ last.op = "fingerprint"
    /\ ItemA.source = "grade_item" /\ ItemB.source = "grade_item"
    /\ last.fps[1] = last.fps[2]
    /\ Strip(ItemA.title) # Strip(ItemB.title)
    /\ ItemA.course_name # ItemB.course_name
    /\ SameRaw(ItemA, ItemB, StateRawKeys("grade_item"))
    /\ last.pairs[1] # last.pairs[2]

\* the text fields of two items are equal up to whitespace: equal once
\* trimmed and with every run of whitespace made one space
SameUpToWhitespace(a, b) ==
    /\ a.source = b.source
    /\ \A f \in ItemTextFields : NormWs(a[f]) = NormWs(b[f])
    /\ \A k \in RawFlagKeys : RawValue(a, k) = RawValue(b, k)
    /\ \A k \in RawTextKeys : NormWs(Get(a.raw, k, <<>>)) = NormWs(Get(b.raw, k, <<>>))

\* C14: state_fp is stable under whitespace: two items whose fields, raw
\* fields included, differ only in leading or trailing whitespace or in
\* the length of interior runs of whitespace have the same state_fp.
C14_StateFpWhitespaceStable ==
    (last.op = "fingerprint" /\ SameUpToWhitespace(ItemA, ItemB))
    => last.pairs[1] = last.pairs[2]

----------------------------------------------------------------------------
(* _safe_goto (app/bb/fetch_all.py): one page load with retries.  last     *)
(* holds the call: its retries argument, the loop variable attempt, the    *)
(* outcomes of the page.goto calls made so far (calls), and how the call   *)
(* ended (status, with the exception raised in raised).                    *)

\* the largest retries argument
MaxRetries == 3

TransientTokens ==
    {"ERR_NETWORK_CHANGED", "ERR_CONNECTION_RESET", "ERR_INTERNET_DISCONNECTED",
     "ERR_NAME_NOT_RESOLVED", "ERR_CONNECTION_TIMED_OUT"}

\* str(e) of the exceptions page.goto raises in the model
ErrorMessages == TransientTokens \cup {"ERR_ABORTED", "Timeout exceeded"}

\* page.goto returns, or raises an exception with a message
GotoOutcomes == {"ok"} \cup ErrorMessages

NoErr == "None"

\* a mutation: every failure counts as transient
TransientAlways(msg) == TRUE

\* transient = any(tok in msg for tok in (...))
Transient(msg) == msg \in TransientTokens

GotoCall(retries) ==
    [op |-> "_safe_goto", retries |-> retries, attempt |-> 1, calls |-> <<>>,
     last_err |-> NoErr, status |-> "running", raised |-> NoErr]

GotoInit ==
    /\ db = <<>>
    /\ now = 0
    /\ last = Blank
    /\ catalog = {}

\* the call: last_err = None, the loop starts at attempt 1
GotoStart ==
    /\ last.op = "none"
    /\ \E retries \in 0..MaxRetries : last' = GotoCall(retries)
    /\ UNCHANGED <<db, now, catalog>>

\* one pass of the loop body: page.goto and the except clause
GotoAttempt ==
    /\ last.op = "_safe_goto" /\ last.status = "running"
    /\ last.attempt <= last.retries
    /\ \E out \in GotoOutcomes :
         last' =
           IF out = "ok"
           THEN [last EXCEPT !.calls = Append(@, out), !.status = "returned"]
           ELSE IF Transient(out) /\ last.attempt < last.retries
                THEN [last EXCEPT !.calls = Append(@, out), !.last_err = out,
                                  !.attempt = @ + 1]
                ELSE [last EXCEPT !.calls = Append(@, out), !.last_err = out,
                                  !.status = "raised", !.raised = out]
    /\ UNCHANGED <<db, now, catalog>>

\* the loop is over without return or raise: raise last_err if there is one
GotoLoopEnd ==
    /\ last.op = "_safe_goto" /\ last.status = "running"
    /\ last.attempt > last.retries
    /\ last' = IF last.last_err # NoErr
               THEN [last EXCEPT !.status = "raised", !.raised = last.last_err]
               ELSE [last EXCEPT !.status = "returned"]
    /\ UNCHANGED <<db, now, catalog>>

\* the caller goes on
GotoOver ==
    /\ last.op = "_safe_goto" /\ last.status # "running"
    /\ last' = Blank
    /\ UNCHANGED <<db, now, catalog>>

GotoNext == GotoStart \/ GotoAttempt \/ GotoLoopEnd \/ GotoOver

GotoSpec == GotoInit /\ [][GotoNext]_vars

\* C15: _safe_goto calls page.goto at most `retries` times; every attempt
\* before the latest failed with a transient message; a failure that is
\* not transient, and a transient failure on attempt `retries`, is raised
\* at once with its own exception; a success returns at once; and while
\* the attempts so far failed transiently and attempts remain, the call
\* goes on.
C15_SafeGotoRetries ==
    last.op = "_safe_goto" =>
      LET n == Len(last.calls) IN
      /\ n <= last.retries
      /\ \A i \in 1..(n - 1) : last.calls[i] \in TransientTokens
      /\ n > 0 =>
           /\ last.calls[n] = "ok" =>
                last.status = "returned" /\ last.raised = NoErr
           /\ (last.calls[n] # "ok" /\ last.calls[n] \notin TransientTokens) =>
                last.status = "raised" /\ last.raised = last.calls[n]
           /\ (last.calls[n] \in TransientTokens /\ n = last.retries) =>
                last.status = "raised" /\ last.raised = last.calls[n]
           /\ (last.calls[n] \in TransientTokens /\ n < last.retries) =>
                last.status = "running" /\ last.attempt = n + 1
      /\ last.status = "raised" => n > 0

\* three transient failures use up the default budget and the third is
\* raised
C15_Witness ==
    /\ last.op = "_safe_goto"
    /\ last.retries = 3
    /\ Len(last.calls) = 3
    /\ \A i \in 1..3 : last.calls[i] \in TransientTokens
    /\ last.status = "raised"
    /\ last.raised = last.calls[3]

----------------------------------------------------------------------------
(* Assignment enrichment (app/bb/fetch_all.py, the loop over the parsed    *)
(* assignments).  An info is the dict parse_assignment_info_html returns   *)
(* for a page; None is NoneVal, "" is <<>>.  A page is what a load of it   *)
(* gives: ok = FALSE when _safe_goto or the extraction raises.             *)

NoneVal == <<"None">>

\* v in (None, "")
IsBlank(v) == v = NoneVal \/ v = <<>>

\* the path that marks an online-submission link is written "U" in a url
IsUploadUrl(u) == \E i \in DOMAIN u : u[i] = "U"

SubmissionKeys == {"submitted", "submitted_at_raw", "submitted_evidence"}

WriteBackKeys ==
    {"due_at_raw", "points_possible_raw", "points_possible", "grade_raw", "grade",
     "attempt_grade_raw", "attempt_grade", "submitted", "submitted_at_raw",
     "submitted_evidence"}

ErrException(course, board) ==
    [kind |-> "exception", course_id |-> course.course_id,
     course_name |-> course.name, board |-> board, error |-> "E"]

\* a mutation: the new-attempt view is followed when both values are missing
NeedsNewAttemptBoth(info) ==
    IsBlank(Get(info, "due_at_raw", NoneVal))
    /\ IsBlank(Get(info, "points_possible_raw", NoneVal))

\* not info.get("due_at_raw") or not info.get("points_possible_raw")
NeedsNewAttempt(info) ==
    IsBlank(Get(info, "due_at_raw", NoneVal))
    \/ IsBlank(Get(info, "points_possible_raw", NoneVal))

\* a mutation: the merge copies the submission fields as well
MergeInfoAllKeys(info, info2) ==
    LET taken == {k \in DOMAIN info2 : ~IsBlank(info2[k])}
    IN  [k \in DOMAIN info \cup taken |-> IF k \in taken THEN info2[k] ELSE info[k]]

\* for k, v in info2.items(): ... info[k] = v
MergeInfo(info, info2) ==
    LET taken == {k \in DOMAIN info2 : k \notin SubmissionKeys /\ ~IsBlank(info2[k])}
    IN  [k \in DOMAIN info \cup taken |-> IF k \in taken THEN info2[k] ELSE info[k]]

\* for k in (...): if k in info and info.get(k) not in (None, ""): a[k] = info.get(k)
WriteBack(a, info) ==
    LET taken == {k \in WriteBackKeys \cap DOMAIN info : ~IsBlank(info[k])}
    IN  [k \in DOMAIN a \cup taken |-> IF k \in taken THEN info[k] ELSE a[k]]

\* the assignment is passed over by the enrichment loop
SkipsEnrichment(a) ==
    \/ Get(a, "is_online_submission", "False") # "True"
    \/ Get(a, "due_at_raw", <<>>) # <<>>
    \/ Get(a, "due_at", <<>>) # <<>>
    \/ ~IsUploadUrl(Strip(Or(Get(a, "submission_url", <<>>), Get(a, "url", <<>>))))

\* one pass of the loop body for assignment a of course; env is what the
\* portal serves: the detail page, whether it embeds a new-attempt link,
\* and the new-attempt page.  The result holds the assignment after the
\* pass, the error records added, the pages loaded and the info after the
\* merge.
EnrichOne(course, a, env) ==
    IF SkipsEnrichment(a)
    THEN [a |-> a, errors |-> <<>>, loads |-> <<>>, info |-> <<>>]
    ELSE IF ~env.detail.ok
    THEN [a |-> a, errors |-> <<ErrException(course, "assignments_detail")>>,
          loads |-> <<"detail">>, info |-> <<>>]
    ELSE IF ~(NeedsNewAttempt(env.detail.info) /\ env.link)
    THEN [a |-> WriteBack(a, env.detail.info), errors |-> <<>>,
          loads |-> <<"detail">>, info |-> env.detail.info]
    ELSE IF ~env.new_attempt.ok
    THEN [a |-> a, errors |-> <<ErrException(course, "assignments_detail")>>,
          loads |-> <<"detail", "new_attempt">>, info |-> env.detail.info]
    ELSE LET info == MergeInfo(env.detail.info, env.new_attempt.info)
         IN  [a |-> WriteBack(a, info), errors |-> <<>>,
              loads |-> <<"detail", "new_attempt">>, info |-> info]

\* the infos of a page whose values are written v
Infos(v) ==
    { [k \in DOMAIN t \cup DOMAIN sub |-> IF k \in DOMAIN t THEN t[k] ELSE sub[k]] :
        t \in [{"due_at_raw", "points_possible_raw", "grade_raw"} -> {<<>>, <<v>>}],
        sub \in { <<>>,
                  [submitted |-> <<"True">>, submitted_at_raw |-> <<v>>],
                  [submitted |-> NoneVal, submitted_at_raw |-> <<>>] } }

Pages(v) == [ok : {TRUE}, info : Infos(v)] \cup [ok : {FALSE}, info : {<<>>}]

Envs == [detail : Pages("1"), link : BOOLEAN, new_attempt : Pages("2")]

TheCourse == [name |-> <<"M">>, url |-> <<"1">>, course_id |-> <<"c">>]

\* the rows parse_assignments_html yields: an online submission, an
\* assignment without submission link, and a row that has a due date
AssignmentRows ==
    { [source |-> "assignment", course_id |-> <<"c">>, course_name |-> <<"M">>,
       content_item_id |-> <<"h">>, title |-> <<"H">>, url |-> <<"U">>,
       is_online_submission |-> "True", submission_url |-> <<"U">>],
      [source |-> "assignment", course_id |-> <<"c">>, course_name |-> <<"M">>,
       content_item_id |-> <<"h">>, title |-> <<"H">>, url |-> <<"w">>,
       is_online_submission |-> "False", submission_url |-> <<>>],
      [source |-> "assignment", course_id |-> <<"c">>, course_name |-> <<"M">>,
       content_item_id |-> <<"h">>, title |-> <<"H">>, url |-> <<"U">>,
       is_online_submission |-> "True", submission_url |-> <<"U">>,
       due_at_raw |-> <<"d">>] }

EnrichInit ==
    /\ db = <<>>
    /\ now = 0
    /\ last = Blank
    /\ catalog = {}

\* one pass of the enrichment loop
Enrich ==
    /\ last.op = "none"
    /\ \E a \in AssignmentRows, env \in Envs :
         last' = [op |-> "enrich", a |-> a, env |-> env,
                  result |-> EnrichOne(TheCourse, a, env)]
    /\ UNCHANGED <<db, now, catalog>>

EnrichNext == Enrich \/ Return

EnrichSpec == EnrichInit /\ [][EnrichNext]_vars

\* the new-attempt page was loaded in the pass
LoadedNewAttempt == \E i \in DOMAIN last.result.loads : last.result.loads[i] = "new_attempt"

Lacks(info, k) == IsBlank(Get(info, k, NoneVal))

\* C19 as stated: the new-attempt page is loaded only when the detail page
\* lacks both the due date and the points-possible value.
C19_NewAttemptOnlyIfBothMissing ==
    (last.op = "enrich" /\ LoadedNewAttempt)
    => /\ Lacks(last.env.detail.info, "due_at_raw")
       /\ Lacks(last.env.detail.info, "points_possible_raw")

\* C19, amended: the new-attempt page is loaded exactly when the assignment
\* is enriched, its detail page was read, the detail page lacks the due
\* date or the points-possible value (one is enough) and embeds a
\* new-attempt link; a detail page that gives both loads nothing more.
C19_NewAttemptIfOneMissing ==
    last.op = "enrich" =>
      (LoadedNewAttempt
         <=> /\ ~SkipsEnrichment(last.a)
             /\ last.env.detail.ok
             /\ last.env.link
             /\ \/ Lacks(last.env.detail.info, "due_at_raw")
                \/ Lacks(last.env.detail.info, "points_possible_raw"))

\* the detail page gives the due date but no points, and the new-attempt
\* page is loaded
C19_Witness ==
    /\ last.op = "enrich"
    /\ LoadedNewAttempt
    /\ ~Lacks(last.env.detail.info, "due_at_raw")
    /\ Lacks(last.env.detail.info, "points_possible_raw")

\* C20: after the merge of the new-attempt info into the detail info every
\* submission field (submitted, submitted_at_raw, submitted_evidence) is as
\* in the detail info (absent when absent there), and every other field
\* has the new-attempt value when that is not empty and the detail value
\* otherwise.
C20_MergeKeepsSubmission ==
    (last.op = "enrich" /\ LoadedNewAttempt /\ last.env.new_attempt.ok)
    => LET info == last.env.detail.info
           info2 == last.env.new_attempt.info
           merged == last.result.info
       IN  /\ \A k \in SubmissionKeys :
                /\ k \in DOMAIN merged <=> k \in DOMAIN info
                /\ k \in DOMAIN info => merged[k] = info[k]
           /\ \A k \in (DOMAIN info \cup DOMAIN info2) \ SubmissionKeys :
                IF k \in DOMAIN info2 /\ ~IsBlank(info2[k])
                THEN k \in DOMAIN merged /\ merged[k] = info2[k]
                ELSE /\ k \in DOMAIN merged <=> k \in DOMAIN info
                     /\ k \in DOMAIN info => merged[k] = info[k]

\* the new-attempt page reads as unsubmitted and carries a grade; the
\* merged info keeps the submission of the detail page and takes the grade
C20_Witness ==
    /\ last.op = "enrich" /\ LoadedNewAttempt /\ last.env.new_attempt.ok
    /\ "submitted" \in DOMAIN last.env.detail.info
    /\ "submitted" \in DOMAIN last.env.new_attempt.info
    /\ last.env.detail.info["submitted_at_raw"] # last.env.new_attempt.info["submitted_at_raw"]
    /\ last.result.info["submitted_at_raw"] = last.env.detail.info["submitted_at_raw"]
    /\ last.env.detail.info["grade_raw"] # <<>>
    /\ last.result.info["grade_raw"] = <<"2">>

----------------------------------------------------------------------------
(* fetch_all_items (app/bb/fetch_all.py): the portal page, then for every  *)
(* course its entry page and its four boards.  last holds the call: the    *)
(* position pc, the courses the portal shows, the course list and the      *)
(* index ci of the course being fetched, the boards its menu links to,     *)
(* all_items and errors, how the call ended (status), and log, the list of *)
(* the steps taken with what each one yielded.  A page load or an          *)
(* extraction either works or raises.                                      *)

\* the largest number of courses on the portal
MaxCourses == 2

CourseSet ==
    {TheCourse, [name |-> <<"P">>, url |-> <<"2">>, course_id |-> <<"d">>]}

\* the portal script lists every course url once
CourseLists ==
    {q \in SeqsUpTo(CourseSet, MaxCourses) :
       \A i, j \in DOMAIN q : q[i] = q[j] => i = j}

MenuBoards == {"teaching_content", "assignments", "grades"}

OfCourse(d, course) ==
    [k \in DOMAIN d \cup {"course_name"} |->
       IF k = "course_id" THEN course.course_id
       ELSE IF k = "course_name" THEN course.name
       ELSE d[k]]

\* the record a board of a course yields when it is read
BoardRecord(board, course) ==
    CASE board = "announcement" -> OfCourse(AnnRec(<<"x">>), course)
      [] board = "teaching_content" -> OfCourse(TcRec("False", <<>>), course)
      [] board = "assignments" ->
           OfCourse([source |-> "assignment", content_item_id |-> <<"h">>,
                     title |-> <<"H">>, url |-> <<"U">>, course_id |-> <<>>,
                     is_online_submission |-> "True", submission_url |-> <<"U">>],
                    course)
      [] board = "grades" -> OfCourse(GradeRec(<<"Q">>, <<"9">>), course)

\* what the detail page of the assignment serves in a fetch
FetchEnvs ==
    { [detail |-> [ok |-> TRUE,
                   info |-> [due_at_raw |-> <<"1">>, points_possible_raw |-> <<"1">>,
                             grade_raw |-> <<>>]],
       link |-> FALSE, new_attempt |-> [ok |-> FALSE, info |-> <<>>]],
      [detail |-> [ok |-> FALSE, info |-> <<>>],
       link |-> FALSE, new_attempt |-> [ok |-> FALSE, info |-> <<>>]] }

\* the record appended when the announcements of a course cannot be parsed
ErrAnnouncement(course) ==
    [course_id |-> course.course_id, course_name |-> course.name,
     board |-> "announcement", error |-> "E"]

ErrMissingMenu(course, board) ==
    [kind |-> "missing_menu", course_id |-> course.course_id,
     course_name |-> course.name, board |-> board, error |-> "menu link not found"]

\* a mutation: the statement after a board is the next course
AfterBoardNextCourse(board) == "course"

\* the statement that follows the try statement of a board
AfterBoard(board) ==
    CASE board = "announcement" -> "teaching_content"
      [] board = "teaching_content" -> "assignments"
      [] board = "assignments" -> "grades"
      [] board = "grades" -> "course"

LogEntry(ci, board, outcome, yielded) ==
    [ci |-> ci, board |-> board, outcome |-> outcome, yielded |-> yielded]

FetchCall(portal, course_limit) ==
    [op |-> "fetch_all_items", pc |-> "portal", portal |-> portal,
     course_limit |-> course_limit, courses |-> <<>>, ci |-> 0, menus |-> {},
     items |-> <<>>, errors |-> <<>>, log |-> <<>>, status |-> "running"]

FetchInit ==
    /\ db = <<>>
    /\ now = 0
    /\ last = Blank
    /\ catalog = {}

FetchStart ==
    /\ last.op = "none"
    /\ \E portal \in CourseLists, course_limit \in 0..MaxCourses :
         last' = FetchCall(portal, course_limit)
    /\ UNCHANGED <<db, now, catalog>>

Fetching(pc) ==
    last.op = "fetch_all_items" /\ last.status = "running" /\ last.pc = pc

\* _safe_goto(portal_url) and eval_courses_on_portal_page, inside try/finally
LoadPortal ==
    /\ Fetching("portal")
    /\ \E ok \in BOOLEAN :
         last' = IF ok
                 THEN [last EXCEPT !.pc = "course",
                         !.courses = IF last.course_limit > 0
                                     THEN Take(last.portal, last.course_limit)
                                     ELSE last.portal]
                 ELSE [last EXCEPT !.pc = "done", !.status = "raised"]
    /\ UNCHANGED <<db, now, catalog>>

\* the head of the course loop: load the course entry page
EnterCourse ==
    /\ Fetching("course")
    /\ last.ci < Len(last.courses)
    /\ \E ok \in BOOLEAN, menus \in SUBSET MenuBoards :
         last' = IF ok
                 THEN [last EXCEPT !.ci = @ + 1, !.menus = menus, !.pc = "announcement",
                         !.log = Append(@, LogEntry(last.ci + 1, "course", "ok", <<>>))]
                 ELSE [last EXCEPT !.ci = @ + 1, !.menus = {},
                         !.errors = Append(@, ErrException(last.courses[last.ci + 1],
                                                           "course")),
                         !.log = Append(@, LogEntry(last.ci + 1, "course", "error", <<>>))]
    /\ UNCHANGED <<db, now, catalog>>

\* 1) announcements, parsed from the entry page
Announcements ==
    /\ Fetching("announcement")
    /\ \E ok \in BOOLEAN :
       \E course \in {last.courses[last.ci]} :
       \E it \in {_as_item(BoardRecord("announcement", course))} :
         last' = IF ok
                 THEN [last EXCEPT !.pc = AfterBoard("announcement"),
                         !.items = Append(@, it),
                         !.log = Append(@, LogEntry(last.ci, "announcement", "ok", <<it>>))]
                 ELSE [last EXCEPT !.pc = AfterBoard("announcement"),
                         !.errors = Append(@, ErrAnnouncement(course)),
                         !.log = Append(@, LogEntry(last.ci, "announcement", "error", <<>>))]
    /\ UNCHANGED <<db, now, catalog>>

\* a board behind a menu link: the link is missing, or the page is loaded
\* and parsed, or that raises
MenuBoardStep(board) ==
    \E ok \in BOOLEAN :
    \E course \in {last.courses[last.ci]} :
    \E it \in {_as_item(BoardRecord(board, course))} :
      last' = IF board \notin last.menus
              THEN [last EXCEPT !.pc = AfterBoard(board),
                      !.errors = Append(@, ErrMissingMenu(course, board)),
                      !.log = Append(@, LogEntry(last.ci, board, "missing_menu", <<>>))]
              ELSE IF ok
              THEN [last EXCEPT !.pc = AfterBoard(board),
                      !.items = Append(@, it),
                      !.log = Append(@, LogEntry(last.ci, board, "ok", <<it>>))]
              ELSE [last EXCEPT !.pc = AfterBoard(board),
                      !.errors = Append(@, ErrException(course, board)),
                      !.log = Append(@, LogEntry(last.ci, board, "error", <<>>))]

\* 2) teaching content
TeachingContent ==
    /\ Fetching("teaching_content")
    /\ MenuBoardStep("teaching_content")
    /\ UNCHANGED <<db, now, catalog>>

\* 3) assignments, with the enrichment of the parsed assignment
Assignments ==
    /\ Fetching("assignments")
    /\ \/ /\ "assignments" \notin last.menus
          /\ MenuBoardStep("assignments")
       \/ /\ "assignments" \in last.menus
          /\ \E ok \in BOOLEAN, env \in FetchEnvs :
             \E course \in {last.courses[last.ci]} :
             \E r \in {EnrichOne(course, BoardRecord("assignments", course), env)} :
             \E it \in {_as_item(r.a)} :
               last' =
                 IF ok
                 THEN [last EXCEPT !.pc = AfterBoard("assignments"),
                         !.items = Append(@, it),
                         !.errors = @ \o r.errors,
                         !.log = @ \o (IF r.errors = <<>> THEN <<>>
                                       ELSE <<LogEntry(last.ci, "assignments_detail",
                                                       "error", <<>>)>>)
                                   \o <<LogEntry(last.ci, "assignments", "ok", <<it>>)>>]
                 ELSE [last EXCEPT !.pc = AfterBoard("assignments"),
                         !.errors = Append(@, ErrException(course, "assignments")),
                         !.log = Append(@, LogEntry(last.ci, "assignments", "error", <<>>))]
    /\ UNCHANGED <<db, now, catalog>>

\* 4) grades
Grades ==
    /\ Fetching("grades")
    /\ MenuBoardStep("grades")
    /\ UNCHANGED <<db, now, catalog>>

\* return FetchAllResult(courses, items, errors)
FetchReturn ==
    /\ Fetching("course")
    /\ last.ci = Len(last.courses)
    /\ last' = [last EXCEPT !.pc = "done", !.status = "returned"]
    /\ UNCHANGED <<db, now, catalog>>

\* the caller goes on, or the exception leaves main
FetchOver ==
    /\ last.op = "fetch_all_items" /\ last.status # "running"
    /\ last' = Blank
    /\ UNCHANGED <<db, now, catalog>>

FetchNext ==
    \/ FetchStart \/ LoadPortal \/ EnterCourse \/ Announcements \/ TeachingContent
    \/ Assignments \/ Grades \/ FetchReturn \/ FetchOver

FetchSpec == FetchInit /\ [][FetchNext]_vars

----------------------------------------------------------------------------
(* Properties of fetch_all_items.                                          *)

Boards == {"announcement", "teaching_content", "assignments", "grades"}

RECURSIVE Yielded(_)
Yielded(log) == IF log = <<>> THEN <<>> ELSE Head(log).yielded \o Yielded(Tail(log))

\* the steps of the log that did not yield
Failures(log) == SelectSeq(log, LAMBDA e : e.outcome # "ok")

Logged(ci, board) == \E k \in DOMAIN last.log : last.log[k].ci = ci /\ last.log[k].board = board

LoggedAs(ci, board, outcome) ==
    \E k \in DOMAIN last.log :
      last.log[k].ci = ci /\ last.log[k].board = board /\ last.log[k].outcome = outcome

\* C16: in the course loop of fetch_all_items every failed step (a board
\* that raises, a missing menu link, a failed course entry) adds exactly
\* one error record, for its course and board, in order; the items the
\* other steps yielded are all in the result, in order; and when the call
\* returns, every board of every course whose entry page loaded was
\* processed, while a course whose entry page failed has no board
\* processed and the courses after it are processed all the same.
C16_BoardFailuresAreIsolated ==
    last.op = "fetch_all_items" =>
      LET failed == Failures(last.log) IN
      /\ last.items = Yielded(last.log)
      /\ Len(last.errors) = Len(failed)
      /\ \A j \in DOMAIN failed :
           /\ last.errors[j].course_id = last.courses[failed[j].ci].course_id
           /\ last.errors[j].board = failed[j].board
      /\ last.status = "returned" =>
           \A ci \in DOMAIN last.courses :
             \/ /\ LoggedAs(ci, "course", "ok")
                /\ \A b \in Boards : Logged(ci, b)
             \/ /\ LoggedAs(ci, "course", "error")
                /\ \A b \in Boards : ~Logged(ci, b)

\* two courses: the entry page of the first fails, a board of the second
\* fails, and the other boards of the second yield their items
C16_Witness ==
    /\ last.op = "fetch_all_items" /\ last.status = "returned"
    /\ Len(last.courses) = 2
    /\ LoggedAs(1, "course", "error")
    /\ LoggedAs(2, "teaching_content", "error")
    /\ LoggedAs(2, "assignments", "ok")
    /\ LoggedAs(2, "grades", "ok")
    /\ Len(last.items) >= 2

\* C17: every record of the errors list has a kind, missing_menu or
\* exception.
C17_ErrorsCarryKind ==
    last.op = "fetch_all_items" =>
      \A j \in DOMAIN last.errors :
        /\ "kind" \in DOMAIN last.errors[j]
        /\ last.errors[j].kind \in {"missing_menu", "exception"}

\* C18: fetch_all_items never ends with an exception, whatever loads or
\* extractions fail: it returns the items and the errors.
C18_FetchNeverRaises ==
    last.op = "fetch_all_items" => last.status # "raised"

----------------------------------------------------------------------------
(* message_for_updated_item (app/notify.py) as a function of the new item  *)
(* and the stored raw record.  last holds the item, the stored record and  *)
(* the message (NoMsg for None).                                           *)

GradeRaws ==
    { [source |-> "grade_item", course_id |-> <<"c">>, course_name |-> <<"M">>,
       row_id |-> <<"g">>, title |-> <<"Q">>, grade_raw |-> g,
       points_possible_raw |-> p, duedate |-> d, status |-> st, category |-> cat] :
        g \in {<<>>, <<"-">>, <<"~">>, <<"9">>, <<"8">>, <<SP, "9">>},
        p \in {<<>>, <<"5">>}, d \in {<<>>, <<"3">>}, st \in {<<>>, <<"k">>},
        cat \in {<<>>, CatAssignment, <<"T">>} }

AssignmentRaws ==
    { [source |-> "assignment", course_id |-> <<"c">>, course_name |-> <<"M">>,
       content_item_id |-> <<"h">>, title |-> <<"H">>, url |-> u,
       is_online_submission |-> online, submitted |-> sub, submitted_at_raw |-> at,
       due_at_raw |-> d, points_possible_raw |-> p, grade_raw |-> g] :
        u \in {<<"U">>, <<"V">>}, online \in {"False", "True"},
        sub \in {"None", "False", "True"}, at \in {<<>>, <<"4">>},
        d \in {<<>>, <<"3">>}, p \in {<<>>, <<"5">>}, g \in {<<>>, <<"9">>} }

MsgInit ==
    /\ db = <<>>
    /\ now = 0
    /\ last = Blank
    /\ catalog = {}

\* message_for_updated_item(new_item=it.to_dict(), old_raw=stored raw)
UpdatedMessage ==
    /\ last.op = "none"
    /\ \E pair \in (GradeRaws \X GradeRaws) \cup (AssignmentRaws \X AssignmentRaws) :
       \E it \in {_as_item(pair[1])} :
         last' = [op |-> "message_for_updated_item", new_item |-> it,
                  old_raw |-> pair[2],
                  msg |-> message_for_updated_item(it, pair[2])]
    /\ UNCHANGED <<db, now, catalog>>

MsgNext == UpdatedMessage \/ Return

MsgSpec == MsgInit /\ [][MsgNext]_vars

----------------------------------------------------------------------------
(* Properties of the update messages.                                      *)

MaxDiffLines == 6

UpdateOf(source) ==
    last.op = "message_for_updated_item" /\ last.new_item.source = source

\* the field of a raw record as the diff compares it
Norm(raw, k) == NormWs(Get(raw, k, <<>>))

NewRaw == last.new_item.raw
OldRaw == last.old_raw

MsgKind == last.msg.title[2]

\* the lines of the message after the item title
DiffLines == SelectSeq(last.msg.body, LAMBDA ln : ln[1] # "title")

LineTags == [i \in DOMAIN DiffLines |-> DiffLines[i][1]]

HasLine(ln) == \E i \in DOMAIN DiffLines : DiffLines[i] = ln

MissingGrade(g) == g \in {<<>>, <<"-">>, <<"~">>}

\* the fields of a grade item, other than the grade, that differ
GradeFieldDiffs ==
    {f \in {"points", "due", "status", "category"} :
       LET k == CASE f = "points" -> "points_possible_raw"
                  [] f = "due" -> "duedate"
                  [] f = "status" -> "status"
                  [] f = "category" -> "category"
       IN  Norm(NewRaw, k) # Norm(OldRaw, k)}

\* C21: for a grade item, a missing old grade (empty, "-" or em-dash) with
\* a present new grade gives a grade-posted message; otherwise a differing
\* grade gives a grade-changed message with the old and the new grade;
\* otherwise the message is an item-updated message that lists exactly the
\* differing ones of points, due, status and category, at most 6 lines;
\* and there is no message when none of them differs.
C21_GradeItemUpdateOrder ==
    UpdateOf("grade_item") =>
      LET og == Norm(OldRaw, "grade_raw")
          ng == Norm(NewRaw, "grade_raw")
      IN  IF MissingGrade(og) /\ ~MissingGrade(ng)
          THEN /\ ~last.msg.none
               /\ MsgKind \in {"grade_posted", "assignment_grade_posted"}
          ELSE IF og # ng
          THEN /\ ~last.msg.none
               /\ MsgKind \in {"grade_changed", "assignment_grade_changed"}
               /\ HasLine(<<"old_grade", og, Norm(OldRaw, "points_possible_raw")>>)
               /\ HasLine(<<"new_grade", ng, Norm(NewRaw, "points_possible_raw")>>)
          ELSE IF GradeFieldDiffs = {}
          THEN last.msg.none
          ELSE /\ ~last.msg.none
               /\ MsgKind = "grade_item_updated"
               /\ Range(LineTags) = GradeFieldDiffs
               /\ Len(DiffLines) = Cardinality(GradeFieldDiffs)
               /\ Len(DiffLines) <= MaxDiffLines

\* the old grade is the sentinel "-", the new grade is 9 and status and
\* points differ as well: the message is the grade-posted one
C21_Witness ==
    /\ UpdateOf("grade_item")
    /\ Norm(OldRaw, "grade_raw") = <<"-">>
    /\ Norm(NewRaw, "grade_raw") = <<"9">>
    /\ {"points", "status"} \subseteq GradeFieldDiffs
    /\ MsgKind \in {"grade_posted", "assignment_grade_posted"}

\* the place of a diff line in the fixed order of an assignment message
TagRank(tag) ==
    CASE tag = "online_submission" -> 1
      [] tag = "submission" -> 2
      [] tag = "submitted_at" -> 3
      [] tag = "due" -> 4
      [] tag = "points" -> 5
      [] tag = "grade" -> 6
      [] tag = "url_changed" -> 7
      [] OTHER -> 0

\* the field a diff line of an assignment message is about differs between
\* the stored and the new record
AssignmentFieldDiffers(tag) ==
    CASE tag = "online_submission" ->
           Get(NewRaw, "is_online_submission", "False") # Get(OldRaw, "is_online_submission", "False")
      [] tag \in {"submission", "submitted_at"} ->
           Get(NewRaw, "submitted", "None") # Get(OldRaw, "submitted", "None")
      [] tag = "due" -> Norm(NewRaw, "due_at_raw") # Norm(OldRaw, "due_at_raw")
      [] tag = "points" -> Norm(NewRaw, "points_possible_raw") # Norm(OldRaw, "points_possible_raw")
      [] tag = "grade" -> Norm(NewRaw, "grade_raw") # Norm(OldRaw, "grade_raw")
      [] tag = "url_changed" -> Norm(NewRaw, "url") # Norm(OldRaw, "url")
      [] OTHER -> FALSE

AssignmentTags ==
    {"online_submission", "submission", "submitted_at", "due", "points", "grade",
     "url_changed"}

\* C22: the diff lines of an assignment update message come in the order
\* online-submission flag, submission status and time, due, points, grade,
\* url; each line is about a field that differs between the stored and the
\* new record; there are at most 6 of them; and there is no message when
\* none of the fields differs.
C22_AssignmentDiffLines ==
    UpdateOf("assignment") =>
      /\ ~last.msg.none =>
           /\ MsgKind = "assignment_updated"
           /\ Len(DiffLines) >= 1 /\ Len(DiffLines) <= MaxDiffLines
           /\ \A i \in DOMAIN LineTags :
                /\ LineTags[i] \in AssignmentTags
                /\ AssignmentFieldDiffers(LineTags[i])
           /\ \A i, j \in DOMAIN LineTags :
                i < j => TagRank(LineTags[i]) < TagRank(LineTags[j])
      /\ (\A tag \in AssignmentTags : ~AssignmentFieldDiffers(tag)) => last.msg.none

\* every field of the assignment differs: the message keeps the first six
\* lines and drops the url line
C22_Witness ==
    /\ UpdateOf("assignment")
    /\ \A tag \in AssignmentTags : AssignmentFieldDiffers(tag)
    /\ ~last.msg.none
    /\ Len(DiffLines) = MaxDiffLines
    /\ LineTags[1] = "online_submission"
    /\ LineTags[MaxDiffLines] = "grade"

----------------------------------------------------------------------------
(* The store under all of its clients: the store operations called one at  *)
(* a time and the runs of main, in any order.                              *)

ClientNext == StoreNext \/ Run

ClientSpec == StoreInit /\ [][ClientNext]_vars

\* C23: no store operation and no run deletes a row: in every step the
\* identities stored before the step are stored after it.
C23_RowsOnlyGrow == [][DOMAIN db \subseteq DOMAIN db']_vars

\* a run over a table that holds both identities found both already stored
C23_Witness ==
    /\ last.op = "run"
    /\ Cardinality(DOMAIN last.existing) = 2
    /\ DOMAIN last.existing \subseteq DOMAIN db

----------------------------------------------------------------------------
(* normalize_bb_cn_datetime (app/bb/announcements.py).  An input is a text *)
(* the layout regex does not match (kind "text") or a text it matches,     *)
(* given by the groups of the match (kind "cn": year, month, day, the      *)
(* half-day word, hour, minute, second).  The result is the ISO-8601       *)
(* string of a datetime (kind "iso"), a text, or an exception.             *)

HalfDayWords == {"", "am", "pm", "noon", "evening"}

NormInputs ==
    [kind : {"text"}, text : {<<>>, <<"T", "B", "D">>, <<"2", "0", "2", "4">>}]
    \cup [kind : {"cn"}, y : {0, 2023, 2024}, mo : {0, 2, 12, 13},
          d : {0, 1, 29, 30, 31, 32}, ampm : HalfDayWords,
          h : {0, 10, 11, 12, 23, 24}, mi : {0, 59, 60}, s : {0, 60}]

IsLeap(y) == (y % 4 = 0 /\ y % 100 # 0) \/ y % 400 = 0

DaysInMonth(y, mo) ==
    IF mo = 2 THEN (IF IsLeap(y) THEN 29 ELSE 28)
    ELSE IF mo \in {4, 6, 9, 11} THEN 30 ELSE 31

\* datetime(year, month, day, hour, minute, second) accepts the arguments
ValidDatetime(y, mo, d, h, mi, s) ==
    /\ y \in 1..9999
    /\ mo \in 1..12
    /\ d \in 1..DaysInMonth(y, mo)
    /\ h \in 0..23
    /\ mi \in 0..59
    /\ s \in 0..59

\* the hour after the half-day word is applied
Hour24(ampm, h) ==
    IF ampm \in {"pm", "evening"} /\ h < 12 THEN h + 12
    ELSE IF ampm = "am" /\ h = 12 THEN 0
    ELSE IF ampm = "noon" /\ h < 11 THEN h + 12
    ELSE h

EmptyText == [kind |-> "text", text |-> <<>>]

normalize_bb_cn_datetime(raw) ==
    IF raw.kind = "text"
    THEN [raised |-> FALSE, value |-> EmptyText]
    ELSE LET hour == Hour24(raw.ampm, raw.h) IN
         IF ValidDatetime(raw.y, raw.mo, raw.d, hour, raw.mi, raw.s)
         THEN [raised |-> FALSE,
               value |-> [kind |-> "iso", y |-> raw.y, mo |-> raw.mo, d |-> raw.d,
                          h |-> hour, mi |-> raw.mi, s |-> raw.s]]
         ELSE [raised |-> TRUE, value |-> EmptyText]

NormInit ==
    /\ db = <<>>
    /\ now = 0
    /\ last = Blank
    /\ catalog = {}

Normalize ==
    /\ last.op = "none"
    /\ \E raw \in NormInputs :
         last' = [op |-> "normalize_bb_cn_datetime", raw |-> raw,
                  result |-> normalize_bb_cn_datetime(raw)]
    /\ UNCHANGED <<db, now, catalog>>

NormNext == Normalize \/ Return

NormSpec == NormInit /\ [][NormNext]_vars

\* C24: the normalizer never raises, and its result is the canonical
\* ISO-8601 string or, for an input that cannot be parsed (no layout, or a
\* layout with a field out of range), the input unmodified.
C24_NormalizerFallsBackToRaw ==
    last.op = "normalize_bb_cn_datetime" =>
      /\ ~last.result.raised
      /\ \/ last.result.value.kind = "iso"
         \/ /\ last.result.value.kind = last.raw.kind
            /\ last.result.value = last.raw

----------------------------------------------------------------------------
(* _find_menu_href (app/bb/fetch_all.py) and the board block that uses it. *)
(* The entry page is the list of its menu anchors in document order; an    *)
(* anchor has its href, the title attribute of its span (label) and        *)
(* whether the span holds exactly the title and closes the anchor (exact). *)
(* The looser pattern matches every anchor whose span has the title.       *)

\* the largest number of menu anchors on an entry page
MaxAnchors == 2

\* the candidate titles of a board, in priority order
MenuTitles == <<"A", "B", "C">>

Anchors ==
    [href : {<<"1">>, <<"2", "&amp;", "3">>}, label : {"A", "B", "C", "X"},
     exact : BOOLEAN]

EntryPages == SeqsUpTo(Anchors, MaxAnchors)

\* str.replace("&amp;", "&")
RECURSIVE UnescapeAmp(_)
UnescapeAmp(h) ==
    IF h = <<>> THEN <<>>
    ELSE <<IF Head(h) = "&amp;" THEN "&" ELSE Head(h)>> \o UnescapeAmp(Tail(h))

\* the positions of the anchors of the page that a pattern for the title matches
Matches(page, title, exact_only) ==
    {k \in DOMAIN page : page[k].label = title /\ (exact_only => page[k].exact)}

Min(S) == CHOOSE k \in S : \A j \in S : k <= j

\* a mutation: the looser pattern alone
FirstMatchLooseOnly(page, title) ==
    IF Matches(page, title, FALSE) # {} THEN Min(Matches(page, title, FALSE)) ELSE 0

\* m = re.search(exact); if not m: m = re.search(looser); 0 stands for no match
FirstMatch(page, title) ==
    IF Matches(page, title, TRUE) # {} THEN Min(Matches(page, title, TRUE))
    ELSE IF Matches(page, title, FALSE) # {} THEN Min(Matches(page, title, FALSE))
    ELSE 0

RECURSIVE _find_menu_href(_, _)
_find_menu_href(entry_html, menu_titles) ==
    IF menu_titles = <<>> THEN <<>>
    ELSE LET m == FirstMatch(entry_html, Head(menu_titles)) IN
         IF m # 0 THEN UnescapeAmp(entry_html[m].href)
         ELSE _find_menu_href(entry_html, Tail(menu_titles))

\* the block of a board behind a menu link: look the link up, then load and
\* parse the board or record the missing menu
MenuBlock(course, entry_html, ok) ==
    LET href == _find_menu_href(entry_html, MenuTitles) IN
    IF href # <<>>
    THEN [href |-> href, loads |-> <<href>>,
          errors |-> IF ok THEN <<>> ELSE <<ErrException(course, "teaching_content")>>]
    ELSE [href |-> href, loads |-> <<>>,
          errors |-> <<ErrMissingMenu(course, "teaching_content")>>]

MenuInit ==
    /\ db = <<>>
    /\ now = 0
    /\ last = Blank
    /\ catalog = {}

MenuLookup ==
    /\ last.op = "none"
    /\ \E page \in EntryPages, ok \in BOOLEAN :
         last' = [op |-> "_find_menu_href", page |-> page, ok |-> ok,
                  result |-> MenuBlock(TheCourse, page, ok)]
    /\ UNCHANGED <<db, now, catalog>>

MenuNext == MenuLookup \/ Return

MenuSpec == MenuInit /\ [][MenuNext]_vars

\* the candidate titles that some anchor of the page carries
TitlesOnPage(page) ==
    {t \in DOMAIN MenuTitles : \E k \in DOMAIN page : page[k].label = MenuTitles[t]}

\* C25: _find_menu_href returns the href of an anchor of the first
\* candidate title, in priority order, that any anchor of the page carries:
\* the first exact anchor of that title if there is one, else its first
\* anchor; a title of lower priority is used only when no anchor carries a
\* higher one.  When no anchor carries a candidate title the result is
\* empty, no page is loaded for the board and one missing_menu error is
\* recorded; otherwise the board page is loaded and no missing_menu error
\* is recorded.
C25_MenuHrefByPriority ==
    last.op = "_find_menu_href" =>
      LET page == last.page
          found == TitlesOnPage(page)
      IN  IF found = {}
          THEN /\ last.result.href = <<>>
               /\ last.result.loads = <<>>
               /\ Len(last.result.errors) = 1
               /\ last.result.errors[1].kind = "missing_menu"
          ELSE LET title == MenuTitles[Min(found)]
                   exact == {k \in DOMAIN page : page[k].label = title /\ page[k].exact}
                   any == {k \in DOMAIN page : page[k].label = title}
                   k == IF exact # {} THEN Min(exact) ELSE Min(any)
               IN  /\ last.result.href = UnescapeAmp(page[k].href)
                   /\ last.result.loads = <<last.result.href>>
                   /\ \A j \in DOMAIN last.result.errors :
                        last.result.errors[j].kind # "missing_menu"

\* the page holds a loose anchor of the first title, then an exact one
\* with another href, and the exact one is returned
C25_Witness ==
    /\ last.op = "_find_menu_href"
    /\ Len(last.page) = 2
    /\ last.page[1].label = "A" /\ ~last.page[1].exact
    /\ last.page[2].label = "A" /\ last.page[2].exact
    /\ last.page[1].href # last.page[2].href
    /\ last.result.href = UnescapeAmp(last.page[2].href)

----------------------------------------------------------------------------
(* The enrichment loop over the whole list of parsed assignments, and the  *)
(* items emitted after it.                                                 *)

\* the largest number of assignments on the list page
MaxAssignments == 2

\* what the portal serves for one assignment of the list
ListEnvs ==
    [detail : { [ok |-> FALSE, info |-> <<>>],
                [ok |-> TRUE, info |-> [due_at_raw |-> <<"1">>, points_possible_raw |-> <<>>,
                                        grade_raw |-> <<"1">>]],
                [ok |-> TRUE, info |-> [due_at_raw |-> <<"1">>, points_possible_raw |-> <<"1">>,
                                        grade_raw |-> <<>>]] },
     link : BOOLEAN,
     new_attempt : { [ok |-> FALSE, info |-> <<>>],
                     [ok |-> TRUE, info |-> [due_at_raw |-> <<>>, points_possible_raw |-> <<"2">>,
                                             grade_raw |-> <<>>]] }]

\* a mutation: the loop ends at the first assignment whose enrichment fails
RECURSIVE EnrichAllStopAtFailure(_, _, _)
EnrichAllStopAtFailure(course, ass, envs) ==
    IF ass = <<>> THEN [ass |-> <<>>, errors |-> <<>>]
    ELSE LET r == EnrichOne(course, Head(ass), Head(envs))
             rest == IF r.errors # <<>> THEN [ass |-> Tail(ass), errors |-> <<>>]
                     ELSE EnrichAllStopAtFailure(course, Tail(ass), Tail(envs))
         IN  [ass |-> <<r.a>> \o rest.ass, errors |-> r.errors \o rest.errors]

\* for a in ass: ... (envs[i] is what the portal serves for ass[i])
RECURSIVE EnrichAll(_, _, _)
EnrichAll(course, ass, envs) ==
    IF ass = <<>> THEN [ass |-> <<>>, errors |-> <<>>]
    ELSE LET r == EnrichOne(course, Head(ass), Head(envs))
             rest == EnrichAll(course, Tail(ass), Tail(envs))
         IN  [ass |-> <<r.a>> \o rest.ass, errors |-> r.errors \o rest.errors]

EnrichListInit ==
    /\ db = <<>>
    /\ now = 0
    /\ last = Blank
    /\ catalog = {}

\* the loop, then all_items.extend(_as_item(d) for d in ass)
EnrichList ==
    /\ last.op = "none"
    /\ \E pairs \in SeqsUpTo(AssignmentRows \X ListEnvs, MaxAssignments) :
       \E ass \in {[k \in DOMAIN pairs |-> pairs[k][1]]} :
       \E envs \in {[k \in DOMAIN pairs |-> pairs[k][2]]} :
       \E r \in {EnrichAll(TheCourse, ass, envs)} :
         last' = [op |-> "enrich_list", ass |-> ass, envs |-> envs,
                  enriched |-> r.ass, errors |-> r.errors,
                  items |-> [k \in DOMAIN r.ass |-> _as_item(r.ass[k])]]
    /\ UNCHANGED <<db, now, catalog>>

EnrichListNext == EnrichList \/ Return

EnrichListSpec == EnrichListInit /\ [][EnrichListNext]_vars

\* the enrichment of assignment k met a failing page load
EnrichmentFailed(k) ==
    /\ ~SkipsEnrichment(last.ass[k])
    /\ \/ ~last.envs[k].detail.ok
       \/ /\ Lacks(last.envs[k].detail.info, "due_at_raw")
             \/ Lacks(last.envs[k].detail.info, "points_possible_raw")
          /\ last.envs[k].link
          /\ ~last.envs[k].new_attempt.ok

\* C26: the assignments whose enrichment failed have one error record each,
\* with board assignments_detail, and their records are as the list view
\* gave them; every other assignment that is to be enriched has the due
\* date of its detail page; and every assignment of the list is emitted as
\* the item of its record.
C26_FailedEnrichmentLeavesRecord ==
    last.op = "enrich_list" =>
      LET failed == {k \in DOMAIN last.ass : EnrichmentFailed(k)} IN
      /\ Len(last.errors) = Cardinality(failed)
      /\ \A j \in DOMAIN last.errors :
           last.errors[j].board = "assignments_detail" /\ last.errors[j].kind = "exception"
      /\ \A k \in failed : last.enriched[k] = last.ass[k]
      /\ \A k \in DOMAIN last.ass \ failed :
           ~SkipsEnrichment(last.ass[k]) =>
             /\ "due_at_raw" \in DOMAIN last.enriched[k]
             /\ last.enriched[k]["due_at_raw"] = last.envs[k].detail.info["due_at_raw"]
      /\ Len(last.items) = Len(last.ass)
      /\ \A k \in DOMAIN last.ass : last.items[k] = _as_item(last.enriched[k])

\* the new-attempt page of the first assignment fails after its detail page
\* was read, and the second assignment is enriched
C26_Witness ==
    /\ last.op = "enrich_list"
    /\ Len(last.ass) = 2
    /\ EnrichmentFailed(1)
    /\ last.envs[1].detail.ok
    /\ last.enriched[1] = last.ass[1]
    /\ ~SkipsEnrichment(last.ass[2]) /\ ~EnrichmentFailed(2)
    /\ "due_at_raw" \in DOMAIN last.enriched[2]
    /\ Len(last.errors) = 1

----------------------------------------------------------------------------
(* The run and its send limit.                                             *)

\* the course holds the two boards whose updates are notified
LimitInit ==
    /\ db = <<>>
    /\ now = 0
    /\ last = Blank
    /\ catalog = {"assignment", "grade_item"}

LimitSpec == LimitInit /\ [][Next]_vars

\* what the next run over the same list leaves in the table when it pushes
\* nothing
NextRunDb == NextRun.db

\* C27, as claimed: a message that a run enqueued and the send limit cut off
\* is not lost.  While the state of the item stays the same, the run that
\* follows over the same list either enqueues a message for the item again
\* or leaves its sent_state_fp different from that state, so that a later
\* run can still enqueue it.  Stated on lists of distinct identities.
C27_CutOffIsNotLost ==
    (AfterRun /\ DistinctIdentities(last.items)) =>
      \A i \in DOMAIN last.pending \ DOMAIN last.to_send :
        LET fp == last.pending[i][2]
            st == last.pending[i][3]
        IN  \/ \E e \in Range(NextRun.enqueued) : e[2] = fp /\ e[3] = st
            \/ NextRunDb[fp].sent_state_fp # st

\* C28: every pair that a run passes to ack_state or to mark_notified names
\* a row that is in the table when the call is made: no UPDATE of the two
\* calls matches no row, and after the run the row of every such pair holds
\* a non-empty sent_state_fp.
C28_PairsReferToRows ==
    AfterRun =>
      /\ last.missed = {}
      /\ \A p \in Range(last.ack_pairs) \cup Range(last.sent_pairs) :
           /\ p[1] \in DOMAIN db
           /\ db[p[1]].sent_state_fp # NoFp

\* a run that acknowledges one item and marks another that it did not find
\* in the table: the row marked is the one its upsert_seen inserted
C28_Witness ==
    /\ AfterRun
    /\ last.missed = {}
    /\ last.ack_pairs # <<>>
    /\ \E p \in Range(last.sent_pairs) :
         /\ p[1] \notin DOMAIN last.existing
         /\ db[p[1]].sent_state_fp = p[2]

\* C29, as claimed: a run enqueues, and so pushes, at most one message per
\* identity fingerprint, whatever list was fetched.
C29_OneMessagePerIdentity ==
    AfterRun =>
      /\ \A i, j \in DOMAIN last.enqueued :
           last.enqueued[i][2] = last.enqueued[j][2] => i = j
      /\ \A i, j \in DOMAIN last.to_send :
           (Pushed(i) /\ Pushed(j) /\ last.to_send[i][2] = last.to_send[j][2]) => i = j

----------------------------------------------------------------------------
(* The backfill of rows that were marked as sent before sent_state_fp was  *)
(* recorded.                                                               *)

AfterStoreOp == last.op \notin {"none", "run"}

\* the operation got past its early return and opened the database
OpenedTable ==
    \/ last.op = "init_db"
    \/ last.op \in {"upsert_seen", "bulk_filter_new", "bulk_classify"} /\ last.items # <<>>
    \/ last.op \in {"fetch_records", "mark_sent"} /\ last.fps # <<>>
    \/ last.op \in {"mark_notified", "ack_state"} /\ last.pairs # <<>>

\* the operation is a mark_notified or ack_state that names the row
WritesSentState(fp) ==
    last.op \in {"mark_notified", "ack_state"} /\ fp \in ListedFps(last.pairs)

\* what the decision loop of a run computes for the one item it
QuietFor(d, it) ==
    LET r == RunDecide(d, <<it>>, now) IN
    r.enqueued = <<>> /\ r.ack_pairs = <<>>

\* C30, as claimed: a row with non-empty sent_at, empty sent_state_fp and
\* non-empty state_fp has, after the next store operation, a sent_state_fp
\* equal to the state_fp it was stored with; a row with empty sent_at is not
\* backfilled; and the backfill applied twice is the backfill applied once.
C30_BackfillAfterNextOperation ==
    AfterStoreOp =>
      /\ \A fp \in DOMAIN last.before :
           BackfillDue(last.before[fp]) =>
             db[fp].sent_state_fp = last.before[fp].state_fp
      /\ \A fp \in DOMAIN last.before :
           (last.before[fp].sent_at = NoTime /\ last.before[fp].sent_state_fp = NoFp
              /\ ~WritesSentState(fp)) => db[fp].sent_state_fp = NoFp
      /\ _migrate_items_table(_migrate_items_table(last.before))
           = _migrate_items_table(last.before)

\* C30, amended: a row with non-empty sent_at, empty sent_state_fp and
\* non-empty state_fp has, after the next store operation that opens the
\* database (init_db, or another operation given a non-empty list), a
\* sent_state_fp equal to the state_fp it was stored with, unless that
\* operation is a mark_notified or ack_state naming the row, which leaves
\* the state it was given; an operation given an empty list leaves the table
\* as it is.  The decision loop of a run, which follows init_db, enqueues
\* and acknowledges nothing for an item observed in the stored state of
\* such a row.  A row with empty sent_at is not backfilled, and the backfill
\* applied twice is the backfill applied once.
C30_BackfillWhenTableOpened ==
    /\ AfterStoreOp =>
         /\ ~OpenedTable => db = last.before
         /\ \A fp \in DOMAIN last.before :
              (BackfillDue(last.before[fp]) /\ OpenedTable) =>
                IF WritesSentState(fp)
                THEN db[fp].sent_state_fp = LastStateFor(last.pairs, fp)
                ELSE db[fp].sent_state_fp = last.before[fp].state_fp
         /\ \A fp \in DOMAIN last.before :
              (last.before[fp].sent_at = NoTime /\ last.before[fp].sent_state_fp = NoFp
                 /\ ~WritesSentState(fp)) => db[fp].sent_state_fp = NoFp
         /\ _migrate_items_table(_migrate_items_table(last.before))
              = _migrate_items_table(last.before)
    /\ \A it \in CatalogItems :
         LET fp == identity_fp(it) IN
         (fp \in DOMAIN db /\ BackfillDue(db[fp]) /\ db[fp].state_fp = state_fp(it))
           => QuietFor(db, it)

\* init_db found a row that mark_sent had left without sent_state_fp and
\* gave it the state it was stored with; a run over the item in that state
\* is quiet
C30_Witness ==
    /\ last.op = "init_db"
    /\ \E it \in CatalogItems :
         LET fp == identity_fp(it) IN
         /\ fp \in DOMAIN last.before
         /\ BackfillDue(last.before[fp])
         /\ last.before[fp].state_fp = state_fp(it)
         /\ db[fp].sent_state_fp = state_fp(it)
         /\ QuietFor(last.before, it)

====
